---------------------------- MODULE Spec2Model ----------------------------
(***************************************************************************)
(* A model of cw-vault-token: the vault token backends Cw4626 (a ledger   *)
(* kept in the contract's own storage), NeutronDenom and OsmosisDenom     *)
(* (token factory denoms) and Cw20 (a separate token contract created     *)
(* through a sub-message and its reply).                                  *)
(*                                                                         *)
(* Every entry point is an operator from the storage it is given and its   *)
(* arguments to a result: how the call ended, the storage it leaves        *)
(* behind, and the messages and events of its Response.  The actions call  *)
(* these operators the way a contract would, one call per step.            *)
(*                                                                         *)
(* Strings are sequences of one-character strings, so that splitting and   *)
(* joining a denom is computed.  An Option or a storage Item is the empty  *)
(* sequence (None, nothing stored) or a sequence of one element.           *)
(***************************************************************************)
EXTENDS Integers, Sequences, FiniteSets, TLC

VARIABLES
    tokenInfo,      \* cw4626: the TOKEN_INFO item
    marketingInfo,  \* cw4626: the MARKETING_INFO item
    balances,       \* cw4626: the BALANCES map, a function on the keys it holds
    totalSupply,    \* neutron: the TOTAL_SUPPLY item
    minted,         \* neutron: sum of the amounts of the successful mints
    burned,         \* neutron: sum of the amounts of the successful burns
    tokenSlot,      \* cw20: the bytes stored under STORE_TOKEN_KEY
    saved,          \* cw20: the token of the most recent successful save
    pending,        \* cw20: sub-messages dispatched and not yet run by the host
    attempt,        \* cw20: "failed" after a failed creation, "retried" after
                    \*       the instantiate that follows it, else "none"
    dispatched,     \* cw20: the number of sub-messages handed to the host
    replied,        \* cw20: the number of them whose reply was handled
    dIn,            \* denom: the input drawn for the denom functions
    dStr,           \* denom: the denom string built from the input
    dOut,           \* denom: the result of parsing dStr
    last            \* the last call: its arguments, its result, the storage before

vars == <<tokenInfo, marketingInfo, balances, totalSupply, minted, burned,
          tokenSlot, saved, pending, attempt, dispatched, replied,
          dIn, dStr, dOut, last>>

cw4626Vars == <<tokenInfo, marketingInfo, balances>>
neutronVars == <<totalSupply, minted, burned>>
cw20Vars == <<tokenSlot, saved, pending, attempt, dispatched, replied>>
denomVars == <<dIn, dStr, dOut>>

--------------------------------------------------------------------------
(* Bounds of the model *)

\* The largest value of Uint128 in the model (u128::MAX in the program).
UintMax == 3

\* Mints are explored while the sum of the minted amounts stays within this.
MaxMinted == 5

\* The most sub-messages the host holds undelivered at a time.
MaxPending == 2

\* The most sub-messages a contract hands to the host in a run.
MaxDispatched == 3

\* The most '/'-separated segments of a drawn denom string.
MaxSegments == 4

--------------------------------------------------------------------------
(* Values *)

None == << >>

Some(v) == << v >>

IsSome(o) == o # << >>

UnwrapOrDefault(o) == IF o = << >> THEN 0 ELSE o[1]

Amounts == 0 .. UintMax

\* Addresses: the contract's own, two holders, and a string that is no address.
ContractAddr == <<"c", "o", "n">>

Alice == <<"a", "l", "i">>

Bob == <<"b", "o", "b">>

BadAddr == <<"A">>

Lowercase ==
    {"a", "b", "c", "d", "e", "f", "g", "h", "i", "j", "k", "l", "m",
     "n", "o", "p", "q", "r", "s", "t", "u", "v", "w", "x", "y", "z"}

\* deps.api.addr_validate: the address is returned as given when it is in
\* normal form (here: at least three characters, all lower case).
AddrValidate(s) ==
    IF Len(s) >= 3 /\ \A i \in 1 .. Len(s) : s[i] \in Lowercase
    THEN [ok |-> TRUE, addr |-> s, err |-> ""]
    ELSE [ok |-> FALSE, addr |-> << >>, err |-> "GenericErr"]

\* The result of a call: Ok(Response) or Err, or a panic.  store is the storage
\* the call leaves behind.
Ok(store, msgs, events) ==
    [ok |-> TRUE, err |-> "", detail |-> << >>, store |-> store,
     msgs |-> msgs, events |-> events]

Err(kind, detail, store) ==
    [ok |-> FALSE, err |-> kind, detail |-> detail, store |-> store,
     msgs |-> << >>, events |-> << >>]

Panic(store) == Err("panic", << >>, store)

--------------------------------------------------------------------------
(* Cw4626: the ledger token of implementations/cw4626.rs *)

\* The storage a Cw4626 call works on.
Cw4626Store(info, marketing, bal) ==
    [info |-> info, marketing |-> marketing, balances |-> bal]

\* BALANCES.may_load(addr).unwrap_or_default()
BalanceOf(bal, addr) == IF addr \in DOMAIN bal THEN bal[addr] ELSE 0

\* BALANCES.save(addr, v): the key is created when the map does not hold it.
SetBalance(bal, addr, v) ==
    [a \in (DOMAIN bal) \cup {addr} |-> IF a = addr THEN v ELSE bal[a]]

Cw4626EventType == "apollo/cw-vault-token/cw4626"

\* Cw4626::to_string: the address of the contract.
Cw4626ToString(address) == address

\* Cw4626::mint without the zero-amount check.
Cw4626MintNoZeroCheck(store, self, recipient, amount) ==
    IF store.info = None THEN Err("Unauthorized", << >>, store)
    ELSE IF store.info[1].total_supply + amount > UintMax THEN Panic(store)
    ELSE LET s1 == [store EXCEPT !.info =
                       Some([store.info[1] EXCEPT !.total_supply = @ + amount])]
             rcpt == AddrValidate(recipient)
         IN  IF ~rcpt.ok THEN Err(rcpt.err, << >>, s1)
             ELSE IF BalanceOf(s1.balances, rcpt.addr) + amount > UintMax
             THEN Panic(s1)
             ELSE Ok([s1 EXCEPT !.balances =
                         SetBalance(@, rcpt.addr, BalanceOf(@, rcpt.addr) + amount)],
                     << >>, << >>)

\* Cw4626::mint with the minter check of cw20_base: a token without minter
\* cannot be minted.
Cw4626MintMinterOnly(store, self, recipient, amount) ==
    IF amount = 0 THEN Err("InvalidZeroAmount", << >>, store)
    ELSE IF store.info = None THEN Err("Unauthorized", << >>, store)
    ELSE IF store.info[1].mint = None THEN Err("Unauthorized", << >>, store)
    ELSE Panic(store)

\* Cw4626::mint that credits the recipient and leaves the total supply.
Cw4626MintUncounted(store, self, recipient, amount) ==
    IF amount = 0 THEN Err("InvalidZeroAmount", << >>, store)
    ELSE IF store.info = None THEN Err("Unauthorized", << >>, store)
    ELSE LET rcpt == AddrValidate(recipient)
         IN  IF ~rcpt.ok THEN Err(rcpt.err, << >>, store)
             ELSE IF BalanceOf(store.balances, rcpt.addr) + amount > UintMax
             THEN Panic(store)
             ELSE Ok([store EXCEPT !.balances =
                         SetBalance(@, rcpt.addr, BalanceOf(@, rcpt.addr) + amount)],
                     << >>, << >>)

\* Cw4626::mint that validates the recipient and computes both sums before
\* it writes.
Cw4626MintValidatesFirst(store, self, recipient, amount) ==
    IF amount = 0 THEN Err("InvalidZeroAmount", << >>, store)
    ELSE IF store.info = None THEN Err("Unauthorized", << >>, store)
    ELSE LET rcpt == AddrValidate(recipient)
         IN  IF ~rcpt.ok THEN Err(rcpt.err, << >>, store)
             ELSE IF store.info[1].total_supply + amount > UintMax
             THEN Panic(store)
             ELSE IF BalanceOf(store.balances, rcpt.addr) + amount > UintMax
             THEN Panic(store)
             ELSE Ok([store EXCEPT
                         !.info = Some([store.info[1] EXCEPT
                                           !.total_supply = @ + amount]),
                         !.balances =
                             SetBalance(@, rcpt.addr,
                                        BalanceOf(@, rcpt.addr) + amount)],
                     << >>, << >>)

\* Cw4626::mint(deps, env, recipient, amount).  self is the address the token
\* was made with (Cw4626::new(env)).
Cw4626Mint(store, self, recipient, amount) ==
    IF amount = 0 THEN Err("InvalidZeroAmount", << >>, store)
    ELSE IF store.info = None THEN Err("Unauthorized", << >>, store)
    \* config.total_supply += amount: Uint128 addition panics on overflow
    ELSE IF store.info[1].total_supply + amount > UintMax THEN Panic(store)
    ELSE LET \* TOKEN_INFO.save
             s1 == [store EXCEPT !.info =
                       Some([store.info[1] EXCEPT !.total_supply = @ + amount])]
             rcpt == AddrValidate(recipient)
         IN  IF ~rcpt.ok THEN Err(rcpt.err, << >>, s1)
             ELSE IF BalanceOf(s1.balances, rcpt.addr) + amount > UintMax
             THEN Panic(s1)
             ELSE Ok([s1 EXCEPT !.balances =
                         SetBalance(@, rcpt.addr, BalanceOf(@, rcpt.addr) + amount)],
                     << >>,
                     <<[ty |-> Cw4626EventType, action |-> "mint",
                        vault_token_address |-> Cw4626ToString(self),
                        amount |-> amount, recipient |-> recipient]>>)

\* Cw4626::burn that lowers the balance and forgets the total supply.
Cw4626BurnKeepsSupply(store, self, contract, amount) ==
    LET old == BalanceOf(store.balances, contract)
    IN  IF old < amount
        THEN Err("Overflow", <<"Sub", old, amount>>, store)
        ELSE Ok([store EXCEPT !.balances = SetBalance(@, contract, old - amount)],
                << >>, << >>)

\* Cw4626::burn whose subtraction from the balance saturates at zero.
Cw4626BurnSaturating(store, self, contract, amount) ==
    LET old == BalanceOf(store.balances, contract)
        s1 == [store EXCEPT !.balances =
                  SetBalance(@, contract, IF old < amount THEN 0 ELSE old - amount)]
    IN  IF s1.info = None THEN Err("NotFound", << >>, s1)
        ELSE Ok([s1 EXCEPT !.info =
                    Some([s1.info[1] EXCEPT !.total_supply =
                             IF @ < amount THEN 0 ELSE @ - amount])],
                << >>, << >>)

\* Cw4626::burn that takes the tokens from the holder Alice (a burn_from).
Cw4626BurnFromHolder(store, self, contract, amount) ==
    LET old == BalanceOf(store.balances, Alice)
    IN  IF old < amount
        THEN Err("Overflow", <<"Sub", old, amount>>, store)
        ELSE LET s1 == [store EXCEPT !.balances =
                           SetBalance(@, Alice, old - amount)]
             IN  IF s1.info = None THEN Err("NotFound", << >>, s1)
                 ELSE IF s1.info[1].total_supply < amount
                 THEN Err("Overflow",
                          <<"Sub", s1.info[1].total_supply, amount>>, s1)
                 ELSE Ok([s1 EXCEPT !.info =
                             Some([s1.info[1] EXCEPT !.total_supply = @ - amount])],
                         << >>, << >>)

\* Cw4626::burn(deps, env, amount): from the balance of env.contract.address.
Cw4626Burn(store, self, contract, amount) ==
    LET old == BalanceOf(store.balances, contract)
    IN  IF old < amount
        THEN Err("Overflow", <<"Sub", old, amount>>, store)
        ELSE LET s1 == [store EXCEPT !.balances =
                           SetBalance(@, contract, old - amount)]
             IN  IF s1.info = None THEN Err("NotFound", << >>, s1)
                 ELSE IF s1.info[1].total_supply < amount
                 THEN Err("Overflow",
                          <<"Sub", s1.info[1].total_supply, amount>>, s1)
                 ELSE Ok([s1 EXCEPT !.info =
                             Some([s1.info[1] EXCEPT !.total_supply = @ - amount])],
                         << >>,
                         <<[ty |-> Cw4626EventType, action |-> "burn",
                            vault_token_address |-> Cw4626ToString(self),
                            amount |-> amount]>>)

\* Cw4626::receive that credits the contract without debiting the sender.
Cw4626ReceiveNoDebit(store, contract, sender, amount) ==
    LET old == BalanceOf(store.balances, sender)
    IN  IF old < amount
        THEN Err("Overflow", <<"Sub", old, amount>>, store)
        ELSE IF BalanceOf(store.balances, contract) + amount > UintMax
        THEN Panic(store)
        ELSE Ok([store EXCEPT !.balances =
                    SetBalance(@, contract, BalanceOf(@, contract) + amount)],
                << >>, << >>)

\* Cw4626::receive(deps, env, info, amount): from info.sender to the contract.
Cw4626Receive(store, contract, sender, amount) ==
    LET old == BalanceOf(store.balances, sender)
    IN  IF old < amount
        THEN Err("Overflow", <<"Sub", old, amount>>, store)
        ELSE LET s1 == [store EXCEPT !.balances =
                           SetBalance(@, sender, old - amount)]
             IN  IF BalanceOf(s1.balances, contract) + amount > UintMax
                 THEN Panic(s1)
                 ELSE Ok([s1 EXCEPT !.balances =
                             SetBalance(@, contract,
                                        BalanceOf(@, contract) + amount)],
                         << >>, << >>)

\* to_binary(msg) and from_binary::<T>(bytes): the bytes carry the JSON of one
\* message type; parsing them as another type, or parsing bytes that are no
\* JSON, fails.
ToBinary(format, body) == [format |-> format, body |-> body]

GarbageBinary == [format |-> "garbage", body |-> << >>]

FromBinary(format, bytes) ==
    IF bytes.format = format
    THEN [ok |-> TRUE, msg |-> bytes.body]
    ELSE [ok |-> FALSE, msg |-> << >>]

Letters == Lowercase \cup {"A", "B", "C", "T", "V"}

\* cw20_base InstantiateMsg::validate, called at cw4626.rs:187: a name of 3 to
\* 50 bytes, a symbol of 3 to 12 letters or '-', at most 18 decimals.
ValidateInstantiateMsg(msg) ==
    /\ Len(msg.name) >= 3 /\ Len(msg.name) <= 50
    /\ Len(msg.symbol) >= 3 /\ Len(msg.symbol) <= 12
    /\ \A i \in 1 .. Len(msg.symbol) : msg.symbol[i] \in Letters \cup {"-"}
    /\ msg.decimals <= 18

\* Cw4626::instantiate that makes the contract the minter of the token, as
\* cw20_base does for a payload that names a minter.
Cw4626InstantiateWithMinter(store, self, init_info) ==
    IF init_info = None THEN Err("GenericErr", << >>, store)
    ELSE LET parsed == FromBinary("Cw4626InstantiateMsg", init_info[1])
         IN
         IF ~parsed.ok THEN Err("ParseErr", << >>, store)
         ELSE LET \* From<Cw4626InstantiateMsg> for InstantiateMsg
                  msg == [name |-> parsed.msg.name, symbol |-> parsed.msg.symbol,
                          decimals |-> parsed.msg.decimals,
                          initial_balances |-> << >>, mint |-> None,
                          marketing |-> parsed.msg.marketing]
                  data == [name |-> msg.name, symbol |-> msg.symbol,
                           decimals |-> msg.decimals, total_supply |-> 0,
                           mint |-> Some(self)]
                  \* TOKEN_INFO.save
                  s1 == [store EXCEPT !.info = Some(data)]
                  events == <<[ty |-> Cw4626EventType, action |-> "instantiate",
                               name |-> data.name, symbol |-> data.symbol,
                               decimals |-> data.decimals]>>
              IN
              IF ~ValidateInstantiateMsg(msg) THEN Err("GenericErr", << >>, store)
              ELSE IF msg.marketing = None THEN Ok(s1, << >>, events)
              ELSE LET marketing == msg.marketing[1]
                       v == IF marketing.marketing = None
                            THEN [ok |-> TRUE, addr |-> << >>, err |-> ""]
                            ELSE AddrValidate(marketing.marketing[1])
                   IN  IF ~v.ok THEN Err(v.err, << >>, s1)
                       ELSE Ok([s1 EXCEPT !.marketing =
                                   Some([project |-> marketing.project,
                                         description |-> marketing.description,
                                         marketing |->
                                             IF marketing.marketing = None
                                             THEN None ELSE Some(v.addr),
                                         logo |-> None])],
                               << >>, events)

\* Cw4626::instantiate that refuses a token that is instantiated already.
Cw4626InstantiateOnce(store, self, init_info) ==
    IF store.info # None THEN Err("GenericErr", << >>, store)
    ELSE IF init_info = None THEN Err("GenericErr", << >>, store)
    ELSE LET parsed == FromBinary("Cw4626InstantiateMsg", init_info[1])
         IN
         IF ~parsed.ok THEN Err("ParseErr", << >>, store)
         ELSE IF ~ValidateInstantiateMsg(parsed.msg)
         THEN Err("GenericErr", << >>, store)
         ELSE Ok([store EXCEPT !.info =
                     Some([name |-> parsed.msg.name, symbol |-> parsed.msg.symbol,
                           decimals |-> parsed.msg.decimals, total_supply |-> 0,
                           mint |-> None])],
                 << >>, << >>)

\* Cw4626::instantiate(deps, init_info)
Cw4626Instantiate(store, self, init_info) ==
    IF init_info = None THEN Err("GenericErr", << >>, store)
    ELSE LET parsed == FromBinary("Cw4626InstantiateMsg", init_info[1])
         IN
         IF ~parsed.ok THEN Err("ParseErr", << >>, store)
         ELSE LET \* From<Cw4626InstantiateMsg> for InstantiateMsg
                  msg == [name |-> parsed.msg.name, symbol |-> parsed.msg.symbol,
                          decimals |-> parsed.msg.decimals,
                          initial_balances |-> << >>, mint |-> None,
                          marketing |-> parsed.msg.marketing]
                  data == [name |-> msg.name, symbol |-> msg.symbol,
                           decimals |-> msg.decimals, total_supply |-> 0,
                           mint |-> None]
                  \* TOKEN_INFO.save
                  s1 == [store EXCEPT !.info = Some(data)]
                  events == <<[ty |-> Cw4626EventType, action |-> "instantiate",
                               name |-> data.name, symbol |-> data.symbol,
                               decimals |-> data.decimals]>>
              IN
              IF ~ValidateInstantiateMsg(msg) THEN Err("GenericErr", << >>, store)
              ELSE IF msg.marketing = None THEN Ok(s1, << >>, events)
              ELSE LET marketing == msg.marketing[1]
                       v == IF marketing.marketing = None
                            THEN [ok |-> TRUE, addr |-> << >>, err |-> ""]
                            ELSE AddrValidate(marketing.marketing[1])
                   IN  IF ~v.ok THEN Err(v.err, << >>, s1)
                       ELSE Ok([s1 EXCEPT !.marketing =
                                   Some([project |-> marketing.project,
                                         description |-> marketing.description,
                                         marketing |->
                                             IF marketing.marketing = None
                                             THEN None ELSE Some(v.addr),
                                         logo |-> None])],
                               << >>, events)

\* VaultToken::query_total_supply for Cw4626: TOKEN_INFO.load(..).total_supply
Cw4626QueryTotalSupply(store) ==
    IF store.info = None THEN [ok |-> FALSE, value |-> 0]
    ELSE [ok |-> TRUE, value |-> store.info[1].total_supply]

\* query_balance that loads the balance instead of reading a missing one as
\* zero: an address the BALANCES map does not hold is an error.
Cw4626QueryBalanceStrict(store, address) ==
    IF ~AddrValidate(address).ok THEN [ok |-> FALSE, value |-> 0]
    ELSE IF address \notin DOMAIN store.balances THEN [ok |-> FALSE, value |-> 0]
    ELSE [ok |-> TRUE, value |-> store.balances[address]]

\* VaultToken::query_balance for Cw4626: cw20_base's query_balance validates
\* the address and reads a missing balance as zero.
Cw4626QueryBalance(store, address) ==
    IF ~AddrValidate(address).ok THEN [ok |-> FALSE, value |-> 0]
    ELSE [ok |-> TRUE, value |-> BalanceOf(store.balances, address)]

--------------------------------------------------------------------------
(* The calls a contract makes on its Cw4626 token *)

NameVault == <<"v", "l", "t">>

NameToken == <<"t", "o", "k">>

NoMarketing == None

MarketingOf(addr) ==
    Some([project |-> None, description |-> None, marketing |-> addr, logo |-> None])

\* The init payloads a caller hands to instantiate.
Cw4626InitMsgs ==
    {[name |-> NameVault, symbol |-> NameVault, decimals |-> 6,
      marketing |-> NoMarketing],
     [name |-> NameToken, symbol |-> NameToken, decimals |-> 18,
      marketing |-> MarketingOf(Some(Alice))],
     [name |-> NameToken, symbol |-> NameToken, decimals |-> 6,
      marketing |-> MarketingOf(Some(BadAddr))],
     [name |-> NameVault, symbol |-> NameVault, decimals |-> 19,
      marketing |-> NoMarketing],
     [name |-> <<"v">>, symbol |-> NameVault, decimals |-> 6,
      marketing |-> NoMarketing]}

Cw4626InitInfos ==
    {None, Some(GarbageBinary)}
        \cup {Some(ToBinary("Cw4626InstantiateMsg", m)) : m \in Cw4626InitMsgs}

Recipients == {ContractAddr, Alice, BadAddr}

Senders == {ContractAddr, Alice}

CurrentCw4626Store == Cw4626Store(tokenInfo, marketingInfo, balances)

\* What a successful mint leaves for the call after it to be compared with.
MintSummary(call) ==
    IF call # None /\ call[1].op = "mint" /\ call[1].res.ok
    THEN Some([recipient |-> call[1].recipient, amount |-> call[1].amount,
               supply |-> call[1].pre.info[1].total_supply,
               balance |-> BalanceOf(call[1].pre.balances, call[1].recipient)])
    ELSE None

\* A contract is built on one token backend: the calls of a backend follow
\* only calls of the same backend.
ContractUses(backends) ==
    /\ dIn = None
    /\ IF last = None THEN TRUE ELSE last[1].backend \in backends

\* The storage is what the call left behind, also when it returned an error.
Cw4626Commit(call) ==
    /\ tokenInfo' = call.res.store.info
    /\ marketingInfo' = call.res.store.marketing
    /\ balances' = call.res.store.balances
    /\ last' = Some(call)
    /\ UNCHANGED <<neutronVars, cw20Vars, denomVars>>

Cw4626InstantiateCall ==
    /\ ContractUses({"cw4626"})
    /\ \E init \in Cw4626InitInfos :
           Cw4626Commit([backend |-> "cw4626", op |-> "instantiate",
                         init |-> init, pre |-> CurrentCw4626Store,
                         after_mint |-> None,
                         res |-> Cw4626Instantiate(CurrentCw4626Store,
                                                   ContractAddr, init)])

\* mint is given no MessageInfo: the sender of the message that made the
\* contract call it does not reach it.
Cw4626MintCall ==
    /\ ContractUses({"cw4626"})
    /\ \E sender \in Senders, recipient \in Recipients, amount \in Amounts :
           Cw4626Commit([backend |-> "cw4626", op |-> "mint", sender |-> sender,
                         recipient |-> recipient, amount |-> amount,
                         pre |-> CurrentCw4626Store, after_mint |-> None,
                         res |-> Cw4626Mint(CurrentCw4626Store, ContractAddr,
                                            recipient, amount)])

Cw4626BurnCall ==
    /\ ContractUses({"cw4626"})
    /\ \E amount \in Amounts :
           Cw4626Commit([backend |-> "cw4626", op |-> "burn", amount |-> amount,
                         pre |-> CurrentCw4626Store,
                         after_mint |-> MintSummary(last),
                         res |-> Cw4626Burn(CurrentCw4626Store, ContractAddr,
                                            ContractAddr, amount)])

Cw4626ReceiveCall ==
    /\ ContractUses({"cw4626"})
    /\ \E sender \in Senders, amount \in Amounts :
           Cw4626Commit([backend |-> "cw4626", op |-> "receive",
                         sender |-> sender, amount |-> amount,
                         pre |-> CurrentCw4626Store, after_mint |-> None,
                         res |-> Cw4626Receive(CurrentCw4626Store, ContractAddr,
                                               sender, amount)])

\* The addresses a balance is asked for: holders, an address that never
\* holds a balance, and a string that is no address.
QueryAddresses == {ContractAddr, Alice, Bob, BadAddr}

\* query_balance is given Deps: it reads the storage and writes nothing.
Cw4626QueryBalanceCall ==
    /\ ContractUses({"cw4626"})
    /\ \E address \in QueryAddresses :
           last' = Some([backend |-> "cw4626", op |-> "query_balance",
                         address |-> address, pre |-> CurrentCw4626Store,
                         after_mint |-> None,
                         res |-> Cw4626QueryBalance(CurrentCw4626Store,
                                                    address)])
    /\ UNCHANGED <<cw4626Vars, neutronVars, cw20Vars, denomVars>>

\* The host runs a call in a transaction: the storage is what the call left
\* when it returned Ok, and what it was before the call when it returned an
\* error or panicked.
Cw4626TxCommit(call) ==
    /\ tokenInfo' = IF call.res.ok THEN call.res.store.info ELSE tokenInfo
    /\ marketingInfo' =
           IF call.res.ok THEN call.res.store.marketing ELSE marketingInfo
    /\ balances' = IF call.res.ok THEN call.res.store.balances ELSE balances
    /\ last' = Some(call)
    /\ UNCHANGED <<neutronVars, cw20Vars, denomVars>>

\* instantiate in a transaction, on a contract whose token has not been
\* instantiated.
Cw4626TxInstantiateCall ==
    /\ ContractUses({"cw4626"})
    /\ tokenInfo = None
    /\ \E init \in Cw4626InitInfos :
           Cw4626TxCommit([backend |-> "cw4626", op |-> "instantiate",
                           init |-> init, pre |-> CurrentCw4626Store,
                           after_mint |-> None,
                           res |-> Cw4626Instantiate(CurrentCw4626Store,
                                                     ContractAddr, init)])

Cw4626TxMintCall ==
    /\ ContractUses({"cw4626"})
    /\ \E sender \in Senders, recipient \in Recipients, amount \in Amounts :
           Cw4626TxCommit([backend |-> "cw4626", op |-> "mint",
                           sender |-> sender, recipient |-> recipient,
                           amount |-> amount, pre |-> CurrentCw4626Store,
                           after_mint |-> None,
                           res |-> Cw4626Mint(CurrentCw4626Store, ContractAddr,
                                              recipient, amount)])

Cw4626TxBurnCall ==
    /\ ContractUses({"cw4626"})
    /\ \E amount \in Amounts :
           Cw4626TxCommit([backend |-> "cw4626", op |-> "burn",
                           amount |-> amount, pre |-> CurrentCw4626Store,
                           after_mint |-> MintSummary(last),
                           res |-> Cw4626Burn(CurrentCw4626Store, ContractAddr,
                                              ContractAddr, amount)])

Cw4626TxReceiveCall ==
    /\ ContractUses({"cw4626"})
    /\ \E sender \in Senders, amount \in Amounts :
           Cw4626TxCommit([backend |-> "cw4626", op |-> "receive",
                           sender |-> sender, amount |-> amount,
                           pre |-> CurrentCw4626Store, after_mint |-> None,
                           res |-> Cw4626Receive(CurrentCw4626Store,
                                                 ContractAddr, sender, amount)])

\* One contract with a Cw4626 token, instantiated once, whose calls the host
\* runs in transactions.
NextCw4626Tx ==
    \/ Cw4626TxInstantiateCall
    \/ Cw4626TxMintCall
    \/ Cw4626TxBurnCall
    \/ Cw4626TxReceiveCall

IdleCw4626 ==
    /\ tokenInfo = None /\ marketingInfo = None /\ balances = << >>

IdleNeutron == totalSupply = None /\ minted = 0 /\ burned = 0

IdleCw20 ==
    /\ tokenSlot = None /\ saved = None /\ pending = << >>
    /\ attempt = "none" /\ dispatched = 0 /\ replied = 0

IdleDenom == dIn = None /\ dStr = None /\ dOut = None

\* The storage of a contract before its first call.
InitContract ==
    /\ IdleCw4626 /\ IdleNeutron /\ IdleCw20 /\ IdleDenom
    /\ last = None

NextCw4626 ==
    \/ Cw4626InstantiateCall
    \/ Cw4626MintCall
    \/ Cw4626BurnCall
    \/ Cw4626ReceiveCall
    \/ Cw4626QueryBalanceCall

--------------------------------------------------------------------------
(* Token factory denoms: implementations/osmosis.rs and neutron.rs *)

Slash == "/"

Factory == <<"f", "a", "c", "t", "o", "r", "y">>

\* OsmosisDenom::new / NeutronDenom::new
NewDenom(owner, subdenom) == [owner |-> owner, subdenom |-> subdenom]

\* Display for OsmosisDenom: "factory/{owner}/{subdenom}"
OsmosisToString(self) ==
    Factory \o <<Slash>> \o self.owner \o <<Slash>> \o self.subdenom

\* Display for NeutronDenom: "factory/{owner}/{subdenom}"
NeutronToString(self) ==
    Factory \o <<Slash>> \o self.owner \o <<Slash>> \o self.subdenom

\* str::split('/'): the pieces between the separators, empty ones included; a
\* string without separator is one piece.
RECURSIVE SplitFrom(_, _, _)
SplitFrom(s, i, piece) ==
    IF i > Len(s) THEN <<piece>>
    ELSE IF s[i] = Slash THEN <<piece>> \o SplitFrom(s, i + 1, << >>)
    ELSE SplitFrom(s, i + 1, Append(piece, s[i]))

Split(s) == SplitFrom(s, 1, << >>)

\* from_native_denom that takes the first three pieces and ignores the rest.
OsmosisFromNativeDenomLax(denom) ==
    LET parts == Split(denom)
    IN  IF Len(parts) < 3 \/ parts[1] # Factory
        THEN [ok |-> FALSE, err |-> "GenericErr", denom |-> None]
        ELSE [ok |-> TRUE, err |-> "", denom |-> Some(NewDenom(parts[2], parts[3]))]

\* OsmosisDenom::from_native_denom(denom)
OsmosisFromNativeDenom(denom) ==
    LET parts == Split(denom)
    IN  IF Len(parts) # 3 \/ parts[1] # Factory
        THEN [ok |-> FALSE, err |-> "GenericErr", denom |-> None]
        ELSE [ok |-> TRUE, err |-> "", denom |-> Some(NewDenom(parts[2], parts[3]))]

\* from_native_denom that swaps the owner and the subdenom.
NeutronFromNativeDenomSwapped(denom) ==
    LET parts == Split(denom)
    IN  IF Len(parts) # 3 \/ parts[1] # Factory
        THEN [ok |-> FALSE, err |-> "GenericErr", denom |-> None]
        ELSE [ok |-> TRUE, err |-> "", denom |-> Some(NewDenom(parts[3], parts[2]))]

\* NeutronDenom::from_native_denom(denom)
NeutronFromNativeDenom(denom) ==
    LET parts == Split(denom)
    IN  IF Len(parts) # 3 \/ parts[1] # Factory
        THEN [ok |-> FALSE, err |-> "GenericErr", denom |-> None]
        ELSE [ok |-> TRUE, err |-> "", denom |-> Some(NewDenom(parts[2], parts[3]))]

\* The messages handed to the host.
MsgMint(denom, amount, sender) ==
    [type |-> "MsgMint", denom |-> denom, amount |-> amount, sender |-> sender]

MsgBurn(denom, amount, sender) ==
    [type |-> "MsgBurn", denom |-> denom, amount |-> amount, sender |-> sender]

MsgCreateDenom(sender, subdenom) ==
    [type |-> "MsgCreateDenom", sender |-> sender, subdenom |-> subdenom]

Coin(denom, amount) == [denom |-> denom, amount |-> amount]

BankSend(to_address, coins) ==
    [type |-> "BankMsg::Send", to_address |-> to_address, amount |-> coins]

\* Vec::contains
Contains(vec, x) == \E i \in 1 .. Len(vec) : vec[i] = x

InstantiateEventType == "apollo/cw-token/instantiate"

NeutronEventType == "apollo/cw-vault-token/neutron"

\* NeutronDenom::query_total_supply: TOTAL_SUPPLY.may_load(..).unwrap_or_default()
NeutronQueryTotalSupply(store) == UnwrapOrDefault(store)

\* NeutronDenom::mint that does not record the minted amount.
NeutronMintUntracked(store, self, contract, recipient, amount) ==
    Ok(store,
       <<MsgMint(NeutronToString(self), amount, contract),
         BankSend(recipient, <<Coin(NeutronToString(self), amount)>>)>>,
       << >>)

\* NeutronDenom::mint whose addition saturates at the largest Uint128.
NeutronMintSaturating(store, self, contract, recipient, amount) ==
    LET total_supply == UnwrapOrDefault(store)
        sum == IF total_supply + amount > UintMax THEN UintMax
               ELSE total_supply + amount
    IN  Ok(Some(sum),
           <<MsgMint(NeutronToString(self), amount, contract),
             BankSend(recipient, <<Coin(NeutronToString(self), amount)>>)>>,
           <<[ty |-> NeutronEventType, action |-> "mint",
              denom |-> NeutronToString(self), amount |-> amount,
              recipient |-> recipient]>>)

\* NeutronDenom::mint(deps, env, recipient, amount); contract is
\* env.contract.address.
NeutronMint(store, self, contract, recipient, amount) ==
    LET total_supply == UnwrapOrDefault(store)
    IN  \* total_supply.checked_add(amount)?
        IF total_supply + amount > UintMax
        THEN Err("Overflow", <<"Add", total_supply, amount>>, store)
        ELSE Ok(Some(total_supply + amount),
                <<MsgMint(NeutronToString(self), amount, contract),
                  BankSend(recipient, <<Coin(NeutronToString(self), amount)>>)>>,
                <<[ty |-> NeutronEventType, action |-> "mint",
                   denom |-> NeutronToString(self), amount |-> amount,
                   recipient |-> recipient]>>)

\* NeutronDenom::burn that names the owner of the denom as the sender.
NeutronBurnAsOwner(store, self, contract, amount) ==
    LET total_supply == UnwrapOrDefault(store)
    IN  IF total_supply < amount
        THEN Err("Overflow", <<"Sub", total_supply, amount>>, store)
        ELSE Ok(Some(total_supply - amount),
                <<MsgBurn(NeutronToString(self), amount, self.owner)>>,
                << >>)

\* NeutronDenom::burn(deps, env, amount)
NeutronBurn(store, self, contract, amount) ==
    LET total_supply == UnwrapOrDefault(store)
    IN  \* total_supply.checked_sub(amount)?
        IF total_supply < amount
        THEN Err("Overflow", <<"Sub", total_supply, amount>>, store)
        ELSE Ok(Some(total_supply - amount),
                <<MsgBurn(NeutronToString(self), amount, contract)>>,
                <<[ty |-> NeutronEventType, action |-> "burn",
                   denom |-> NeutronToString(self), amount |-> amount]>>)

\* NeutronDenom::instantiate that asks for a reply to its MsgCreateDenom.
NeutronInstantiateWithReply(store, self, init_info) ==
    Ok(store,
       <<[type |-> "MsgCreateDenom", sender |-> self.owner,
          subdenom |-> self.subdenom, id |-> 1, reply_on |-> "always"]>>,
       <<[ty |-> InstantiateEventType, denom |-> NeutronToString(self)]>>)

\* NeutronDenom::instantiate(deps, init_info)
NeutronInstantiate(store, self, init_info) ==
    Ok(store, <<MsgCreateDenom(self.owner, self.subdenom)>>,
       <<[ty |-> InstantiateEventType, denom |-> NeutronToString(self)]>>)

\* receive that accepts any attached amount of at least the required one.
NeutronReceiveAtLeast(store, self, funds, amount) ==
    IF \E i \in 1 .. Len(funds) :
           funds[i].denom = NeutronToString(self) /\ funds[i].amount >= amount
    THEN Ok(store, << >>, << >>)
    ELSE Err("GenericErr", <<"Expected to receive", amount>>, store)

\* NeutronDenom::receive(deps, env, info, amount); funds is info.funds.
NeutronReceive(store, self, funds, amount) ==
    LET required == Coin(NeutronToString(self), amount)
    IN  IF ~Contains(funds, required)
        THEN Err("GenericErr", <<"Expected to receive", amount>>, store)
        ELSE Ok(store, << >>, << >>)

\* OsmosisDenom::mint that names the owner of the denom as the sender.
OsmosisMintAsOwner(store, self, contract, recipient, amount) ==
    Ok(store,
       <<MsgMint(OsmosisToString(self), amount, self.owner),
         BankSend(recipient, <<Coin(OsmosisToString(self), amount)>>)>>,
       << >>)

\* OsmosisDenom::mint that sends the coins before it mints them.
OsmosisMintSendFirst(store, self, contract, recipient, amount) ==
    Ok(store,
       <<BankSend(recipient, <<Coin(OsmosisToString(self), amount)>>),
         MsgMint(OsmosisToString(self), amount, contract)>>,
       << >>)

\* OsmosisDenom::mint(deps, env, recipient, amount)
OsmosisMint(store, self, contract, recipient, amount) ==
    Ok(store,
       <<MsgMint(OsmosisToString(self), amount, contract),
         BankSend(recipient, <<Coin(OsmosisToString(self), amount)>>)>>,
       << >>)

\* OsmosisDenom::burn that returns no message for an amount of zero.
OsmosisBurnSkipsZero(store, self, contract, amount) ==
    IF amount = 0 THEN Ok(store, << >>, << >>)
    ELSE Ok(store, <<MsgBurn(OsmosisToString(self), amount, contract)>>, << >>)

\* OsmosisDenom::burn(deps, env, amount)
OsmosisBurn(store, self, contract, amount) ==
    Ok(store, <<MsgBurn(OsmosisToString(self), amount, contract)>>, << >>)

\* OsmosisDenom::instantiate(deps, init_info)
OsmosisInstantiate(store, self, init_info) ==
    Ok(store, <<MsgCreateDenom(self.owner, self.subdenom)>>,
       <<[ty |-> InstantiateEventType, denom |-> OsmosisToString(self)]>>)

\* OsmosisDenom::receive(deps, env, info, amount)
OsmosisReceive(store, self, funds, amount) ==
    LET required == Coin(OsmosisToString(self), amount)
    IN  IF ~Contains(funds, required)
        THEN Err("GenericErr", <<"Expected to receive", amount>>, store)
        ELSE Ok(store, << >>, << >>)

--------------------------------------------------------------------------
(* The calls a contract makes on its token factory denom *)

Subdenom == <<"s", "u", "b">>

\* The denom of the contract: NeutronDenom::new(env.contract.address, subdenom)
TheDenom == NewDenom(ContractAddr, Subdenom)

OtherDenom == <<"u", "o", "s", "m", "o">>

\* info.funds as the host delivers it: at most one coin of a denom, ordered by
\* denom, no coin of amount zero.  a is the amount of the vault denom and b
\* that of another denom.
FundsOf(denom, a, b) ==
    (IF a > 0 THEN <<Coin(denom, a)>> ELSE << >>)
        \o (IF b > 0 THEN <<Coin(OtherDenom, b)>> ELSE << >>)

\* The amount of denom attached to the message.
RECURSIVE AttachedFrom(_, _, _)
AttachedFrom(funds, denom, i) ==
    IF i > Len(funds) THEN 0
    ELSE (IF funds[i].denom = denom THEN funds[i].amount ELSE 0)
             + AttachedFrom(funds, denom, i + 1)

Attached(funds, denom) == AttachedFrom(funds, denom, 1)

\* env.contract.address: the owner of the denom, or a contract that is not.
NativeContracts == {ContractAddr, Alice}

NativeRecipients == {ContractAddr, Bob}

NativeCommit(call) ==
    /\ last' = Some(call)
    /\ UNCHANGED <<cw4626Vars, cw20Vars, denomVars>>

NeutronInstantiateCall ==
    /\ ContractUses({"neutron", "osmosis"})
    /\ LET res == NeutronInstantiate(totalSupply, TheDenom, None)
       IN  /\ totalSupply' = res.store
           /\ UNCHANGED <<minted, burned>>
           /\ NativeCommit([backend |-> "neutron", op |-> "instantiate",
                            pre |-> totalSupply, after_mint |-> None,
                            res |-> res])

NeutronMintCall ==
    /\ ContractUses({"neutron", "osmosis"})
    /\ \E contract \in NativeContracts, recipient \in NativeRecipients,
          amount \in Amounts :
           LET res == NeutronMint(totalSupply, TheDenom, contract, recipient,
                                  amount)
           IN  /\ minted + amount <= MaxMinted
               /\ totalSupply' = res.store
               /\ minted' = IF res.ok THEN minted + amount ELSE minted
               /\ UNCHANGED burned
               /\ NativeCommit([backend |-> "neutron", op |-> "mint",
                                contract |-> contract, recipient |-> recipient,
                                amount |-> amount, pre |-> totalSupply,
                                after_mint |-> None, res |-> res])

\* What a successful NeutronDenom::mint leaves for the call after it.
NeutronMintSummary(call) ==
    IF call # None /\ call[1].backend = "neutron" /\ call[1].op = "mint"
       /\ call[1].res.ok
    THEN Some([recipient |-> call[1].recipient, amount |-> call[1].amount,
               supply |-> NeutronQueryTotalSupply(call[1].pre), balance |-> 0])
    ELSE None

NeutronBurnCall ==
    /\ ContractUses({"neutron", "osmosis"})
    /\ \E contract \in NativeContracts, amount \in Amounts :
           LET res == NeutronBurn(totalSupply, TheDenom, contract, amount)
           IN  /\ totalSupply' = res.store
               /\ burned' = IF res.ok THEN burned + amount ELSE burned
               /\ UNCHANGED minted
               /\ NativeCommit([backend |-> "neutron", op |-> "burn",
                                contract |-> contract, amount |-> amount,
                                pre |-> totalSupply,
                                after_mint |-> NeutronMintSummary(last),
                                res |-> res])

NeutronReceiveCall ==
    /\ ContractUses({"neutron", "osmosis"})
    /\ \E a \in Amounts, b \in Amounts, amount \in Amounts :
           LET funds == FundsOf(NeutronToString(TheDenom), a, b)
               res == NeutronReceive(totalSupply, TheDenom, funds, amount)
           IN  /\ totalSupply' = res.store
               /\ UNCHANGED <<minted, burned>>
               /\ NativeCommit([backend |-> "neutron", op |-> "receive",
                                funds |-> funds, amount |-> amount,
                                pre |-> totalSupply, after_mint |-> None,
                                res |-> res])

\* OsmosisDenom keeps nothing in the contract's storage: its calls are given
\* the storage and leave it as it is.
OsmosisCommit(call) ==
    /\ totalSupply' = call.res.store
    /\ UNCHANGED <<minted, burned>>
    /\ NativeCommit(call)

OsmosisInstantiateCall ==
    /\ ContractUses({"neutron", "osmosis"})
    /\ OsmosisCommit([backend |-> "osmosis", op |-> "instantiate",
                      pre |-> totalSupply, after_mint |-> None,
                      res |-> OsmosisInstantiate(totalSupply, TheDenom, None)])

OsmosisMintCall ==
    /\ ContractUses({"neutron", "osmosis"})
    /\ \E contract \in NativeContracts, recipient \in NativeRecipients,
          amount \in Amounts :
           OsmosisCommit([backend |-> "osmosis", op |-> "mint",
                          contract |-> contract, recipient |-> recipient,
                          amount |-> amount, pre |-> totalSupply,
                          after_mint |-> None,
                          res |-> OsmosisMint(totalSupply, TheDenom, contract,
                                              recipient, amount)])

OsmosisBurnCall ==
    /\ ContractUses({"neutron", "osmosis"})
    /\ \E contract \in NativeContracts, amount \in Amounts :
           OsmosisCommit([backend |-> "osmosis", op |-> "burn",
                          contract |-> contract, amount |-> amount,
                          pre |-> totalSupply, after_mint |-> None,
                          res |-> OsmosisBurn(totalSupply, TheDenom, contract,
                                              amount)])

OsmosisReceiveCall ==
    /\ ContractUses({"neutron", "osmosis"})
    /\ \E a \in Amounts, b \in Amounts, amount \in Amounts :
           LET funds == FundsOf(OsmosisToString(TheDenom), a, b)
           IN  OsmosisCommit([backend |-> "osmosis", op |-> "receive",
                              funds |-> funds, amount |-> amount,
                              pre |-> totalSupply, after_mint |-> None,
                              res |-> OsmosisReceive(totalSupply, TheDenom,
                                                     funds, amount)])

\* The creator of a token factory denom: the second piece of its string.
DenomCreator(denom) == Split(denom)[2]

\* The token factory of the host runs a MsgMint or a MsgBurn only for the
\* creator of the denom and only for an amount that is not zero
\* (tests/osmosis_integration_test.rs: "executed by non-owner => panics",
\* "zero amount => panics").
HostRuns(msg) ==
    IF msg.type \in {"MsgMint", "MsgBurn"}
    THEN msg.sender = DenomCreator(msg.denom) /\ msg.amount > 0
    ELSE TRUE

\* execute_cosmos_msgs: the messages of a Response are run in order, and the
\* execution fails when the host refuses one of them.
ExecuteCosmosMsgs(msgs) == \A i \in 1 .. Len(msgs) : HostRuns(msgs[i])

\* The call returned Ok and the host ran the messages of its Response.
Executed(call) == call.res.ok /\ ExecuteCosmosMsgs(call.res.msgs)

NextNative ==
    \/ NeutronInstantiateCall
    \/ NeutronMintCall
    \/ NeutronBurnCall
    \/ NeutronReceiveCall
    \/ OsmosisInstantiateCall
    \/ OsmosisMintCall
    \/ OsmosisBurnCall
    \/ OsmosisReceiveCall

--------------------------------------------------------------------------
(* Cw20: implementations/cw20.rs, with the token slot of state.rs *)

REPLY_SAVE_CW20_ADDRESS == 14509

Quote == "\""

\* Cw20(pub Addr)
Cw20(addr) == [addr |-> addr]

\* serde_json of Cw20, a newtype of Addr: the address as a JSON string.
SerializeCw20(token) == <<Quote>> \o token.addr \o <<Quote>>

DeserializeCw20(bytes) ==
    IF Len(bytes) >= 2 /\ bytes[1] = Quote /\ bytes[Len(bytes)] = Quote
    THEN [ok |-> TRUE, token |-> Some(Cw20(SubSeq(bytes, 2, Len(bytes) - 1)))]
    ELSE [ok |-> FALSE, token |-> None]

\* TokenStorage::save that keeps a value the slot already holds.
TokenStorageSaveOnce(slot, token) ==
    IF slot = None THEN Some(SerializeCw20(token)) ELSE slot

\* TokenStorage::save(&self, storage): the slot holds the bytes of self.
TokenStorageSave(slot, token) == Some(SerializeCw20(token))

\* TokenStorage::load that returns Cw20::default() when nothing was saved.
TokenStorageLoadOrDefault(slot) ==
    IF slot = None THEN [ok |-> TRUE, err |-> "", token |-> Some(Cw20(<< >>))]
    ELSE LET parsed == DeserializeCw20(slot[1])
         IN  IF parsed.ok THEN [ok |-> TRUE, err |-> "", token |-> parsed.token]
             ELSE [ok |-> FALSE, err |-> "ParseErr", token |-> None]

\* TokenStorage::load(storage)
TokenStorageLoad(slot) ==
    IF slot = None THEN [ok |-> FALSE, err |-> "NotFound", token |-> None]
    ELSE LET parsed == DeserializeCw20(slot[1])
         IN  IF parsed.ok THEN [ok |-> TRUE, err |-> "", token |-> parsed.token]
             ELSE [ok |-> FALSE, err |-> "ParseErr", token |-> None]

\* A reply of the host: Reply { id, result }, the result being Err(message) or
\* Ok(SubMsgResponse { data }).
Reply(id, result) == [id |-> id, result |-> result]

SubMsgErr(message) == [ok |-> FALSE, err |-> message, data |-> None]

SubMsgOk(data) == [ok |-> TRUE, err |-> << >>, data |-> data]

\* The data of an instantiate: MsgInstantiateContractResponse.
InstantiateResponseData(contract_address) ==
    ToBinary("MsgInstantiateContractResponse",
             [contract_address |-> contract_address])

\* cw_utils::parse_reply_instantiate_data, called at cw20.rs:94
ParseReplyInstantiateData(reply) ==
    IF ~reply.result.ok
    THEN [ok |-> FALSE, err |-> "SubMsgFailure", detail |-> reply.result.err,
          contract_address |-> << >>]
    ELSE IF reply.result.data = None
    THEN [ok |-> FALSE, err |-> "ParseFailure", detail |-> <<"Missing reply data">>,
          contract_address |-> << >>]
    ELSE LET parsed == FromBinary("MsgInstantiateContractResponse",
                                  reply.result.data[1])
         IN  IF ~parsed.ok
             THEN [ok |-> FALSE, err |-> "ParseFailure", detail |-> << >>,
                   contract_address |-> << >>]
             ELSE [ok |-> TRUE, err |-> "", detail |-> << >>,
                   contract_address |-> parsed.msg.contract_address]

\* utils::unwrap_reply(reply): the response, or the host's message as an error
UnwrapReply(reply) ==
    IF reply.result.ok
    THEN [ok |-> TRUE, err |-> "", detail |-> << >>]
    ELSE [ok |-> FALSE, err |-> "GenericErr", detail |-> reply.result.err]

\* Cw20::instantiate whose sub-message asks for a reply on success only.
Cw20InstantiateReplyOnSuccess(slot, init_info) ==
    IF init_info = None THEN Err("GenericErr", << >>, slot)
    ELSE LET parsed == FromBinary("Cw20InitInfo", init_info[1])
         IN  IF ~parsed.ok THEN Err("ParseErr", << >>, slot)
             ELSE Ok(slot,
                     <<[type |-> "WasmMsg::Instantiate",
                        admin |-> parsed.msg.admin, code_id |-> parsed.msg.code_id,
                        msg |-> parsed.msg.init_msg, funds |-> parsed.msg.funds,
                        label |-> parsed.msg.label,
                        id |-> REPLY_SAVE_CW20_ADDRESS, reply_on |-> "success"]>>,
                     <<[ty |-> "create_cw20", label |-> parsed.msg.label]>>)

\* Cw20::instantiate that gives the sub-message of every code id its own id.
Cw20InstantiateIdPerCode(slot, init_info) ==
    IF init_info = None THEN Err("GenericErr", << >>, slot)
    ELSE LET parsed == FromBinary("Cw20InitInfo", init_info[1])
         IN  IF ~parsed.ok THEN Err("ParseErr", << >>, slot)
             ELSE Ok(slot,
                     <<[type |-> "WasmMsg::Instantiate",
                        admin |-> parsed.msg.admin, code_id |-> parsed.msg.code_id,
                        msg |-> parsed.msg.init_msg, funds |-> parsed.msg.funds,
                        label |-> parsed.msg.label,
                        id |-> REPLY_SAVE_CW20_ADDRESS + parsed.msg.code_id,
                        reply_on |-> "always"]>>,
                     <<[ty |-> "create_cw20", label |-> parsed.msg.label]>>)

\* Cw20::instantiate that adds its message with SubMsg::new: no reply is
\* asked for.
Cw20InstantiateReplyNever(slot, init_info) ==
    IF init_info = None THEN Err("GenericErr", << >>, slot)
    ELSE LET parsed == FromBinary("Cw20InitInfo", init_info[1])
         IN  IF ~parsed.ok THEN Err("ParseErr", << >>, slot)
             ELSE Ok(slot,
                     <<[type |-> "WasmMsg::Instantiate",
                        admin |-> parsed.msg.admin, code_id |-> parsed.msg.code_id,
                        msg |-> parsed.msg.init_msg, funds |-> parsed.msg.funds,
                        label |-> parsed.msg.label,
                        id |-> 0, reply_on |-> "never"]>>,
                     <<[ty |-> "create_cw20", label |-> parsed.msg.label]>>)

\* Cw20::instantiate(deps, env, init_info)
Cw20Instantiate(slot, init_info) ==
    IF init_info = None THEN Err("GenericErr", << >>, slot)
    ELSE LET parsed == FromBinary("Cw20InitInfo", init_info[1])
         IN  IF ~parsed.ok THEN Err("ParseErr", << >>, slot)
             ELSE Ok(slot,
                     <<[type |-> "WasmMsg::Instantiate",
                        admin |-> parsed.msg.admin, code_id |-> parsed.msg.code_id,
                        msg |-> parsed.msg.init_msg, funds |-> parsed.msg.funds,
                        label |-> parsed.msg.label,
                        id |-> REPLY_SAVE_CW20_ADDRESS, reply_on |-> "always"]>>,
                     <<[ty |-> "create_cw20", label |-> parsed.msg.label]>>)

\* reply_save_token that saves whatever reply it is given, whatever its id.
Cw20ReplySaveTokenAnyId(slot, reply) ==
    LET res == ParseReplyInstantiateData(reply)
    IN  IF ~res.ok THEN Err(res.err, res.detail, slot)
        ELSE LET addr == AddrValidate(res.contract_address)
             IN  IF ~addr.ok THEN Err(addr.err, << >>, slot)
                 ELSE Ok(TokenStorageSave(slot, Cw20(addr.addr)), << >>, << >>)

\* reply_save_token that clears the slot before it looks at the reply.
Cw20ReplySaveTokenClearing(slot, reply) ==
    IF reply.id = REPLY_SAVE_CW20_ADDRESS
    THEN LET res == ParseReplyInstantiateData(reply)
         IN  IF ~res.ok THEN Err(res.err, res.detail, None)
             ELSE LET addr == AddrValidate(res.contract_address)
                  IN  IF ~addr.ok THEN Err(addr.err, << >>, None)
                      ELSE Ok(TokenStorageSave(slot, Cw20(addr.addr)),
                              << >>, << >>)
    ELSE Err("InvalidReplyId", << >>, slot)

\* reply_save_token that answers a failed creation with a new creation
\* sub-message.
Cw20ReplySaveTokenRetrying(slot, reply) ==
    IF reply.id = REPLY_SAVE_CW20_ADDRESS
    THEN LET res == ParseReplyInstantiateData(reply)
         IN  IF ~res.ok
             THEN Ok(slot,
                     <<[type |-> "WasmMsg::Instantiate",
                        id |-> REPLY_SAVE_CW20_ADDRESS, reply_on |-> "always"]>>,
                     << >>)
             ELSE LET addr == AddrValidate(res.contract_address)
                  IN  IF ~addr.ok THEN Err(addr.err, << >>, slot)
                      ELSE Ok(TokenStorageSave(slot, Cw20(addr.addr)),
                              << >>, << >>)
    ELSE Err("InvalidReplyId", << >>, slot)

\* reply_save_token that saves the token only into an empty slot: a reply
\* that comes after a token was saved is refused.
Cw20ReplySaveTokenIfEmpty(slot, reply) ==
    IF reply.id = REPLY_SAVE_CW20_ADDRESS
    THEN IF slot # None THEN Err("GenericErr", << >>, slot)
         ELSE LET res == ParseReplyInstantiateData(reply)
              IN  IF ~res.ok THEN Err(res.err, res.detail, slot)
                  ELSE LET addr == AddrValidate(res.contract_address)
                       IN  IF ~addr.ok THEN Err(addr.err, << >>, slot)
                           ELSE Ok(TokenStorageSave(slot, Cw20(addr.addr)),
                                   << >>, << >>)
    ELSE Err("InvalidReplyId", << >>, slot)

\* Cw20::reply_save_token(deps, env, reply)
Cw20ReplySaveToken(slot, reply) ==
    IF reply.id = REPLY_SAVE_CW20_ADDRESS
    THEN LET res == ParseReplyInstantiateData(reply)
         IN  IF ~res.ok THEN Err(res.err, res.detail, slot)
             ELSE LET addr == AddrValidate(res.contract_address)
                  IN  IF ~addr.ok THEN Err(addr.err, << >>, slot)
                      ELSE Ok(TokenStorageSave(slot, Cw20(addr.addr)),
                              << >>,
                              <<[action |-> "save_cw20_addr",
                                 contract_addr |-> addr.addr]>>)
    ELSE Err("InvalidReplyId", << >>, slot)

--------------------------------------------------------------------------
(* The calls of a contract that keeps a Cw20 token, and its host *)

TokenA == <<"t", "k", "a">>

TokenB == <<"t", "k", "b">>

Cw20InitInfos ==
    {None, Some(GarbageBinary),
     Some(ToBinary("Cw20InitInfo",
                   [code_id |-> 1, admin |-> None, funds |-> << >>,
                    label |-> <<"l">>, init_msg |-> GarbageBinary]))}

\* What the host can answer to an instantiate sub-message.
SubMsgResults ==
    {SubMsgErr(<<"e", "1">>), SubMsgErr(<<"e", "2">>),
     SubMsgOk(None), SubMsgOk(Some(GarbageBinary))}
        \cup {SubMsgOk(Some(InstantiateResponseData(a))) :
                 a \in {TokenA, TokenB, BadAddr}}

\* The ids of the other sub-messages of the contract.
ForeignReplyIds == {0, 1, 14508}

\* The token that a call saved: reply_save_token saves, when it succeeds, the
\* Cw20 of the contract address of the reply.
SavedBy(call) ==
    IF call.op = "reply" /\ call.res.ok
    THEN Some(Cw20(ParseReplyInstantiateData(call.reply).contract_address))
    ELSE None

Cw20Commit(call) ==
    /\ tokenSlot' = call.res.store
    /\ saved' = IF SavedBy(call) # None THEN SavedBy(call) ELSE saved
    /\ last' = Some(call)
    /\ UNCHANGED <<cw4626Vars, neutronVars, denomVars>>

\* The instantiate entry point; the host takes the sub-messages of the response.
Cw20InstantiateCall ==
    /\ ContractUses({"cw20"})
    /\ \E init \in Cw20InitInfos :
           LET res == Cw20Instantiate(tokenSlot, init)
           IN  /\ Len(pending) + Len(res.msgs) <= MaxPending
               /\ dispatched + Len(res.msgs) <= MaxDispatched
               /\ pending' = pending \o res.msgs
               /\ dispatched' = dispatched + Len(res.msgs)
               /\ attempt' = IF attempt = "failed" /\ res.ok THEN "retried"
                             ELSE attempt
               /\ UNCHANGED replied
               /\ Cw20Commit([backend |-> "cw20", op |-> "instantiate",
                              init |-> init, pre |-> tokenSlot,
                              attempt |-> attempt, outstanding |-> Len(pending),
                              res |-> res])

\* ReplyOn of a sub-message: whether the host calls the reply entry point
\* with the result of the sub-message.
ReplyRequested(sub, result) ==
    \/ sub.reply_on = "always"
    \/ sub.reply_on = "success" /\ result.ok
    \/ sub.reply_on = "error" /\ ~result.ok

\* The host ran the oldest sub-message and, when the sub-message asks for a
\* reply to what came of it, calls the reply entry point with its id and the
\* result; it takes the sub-messages of the response to the reply.
Cw20ReplyCall ==
    /\ ContractUses({"cw20"})
    /\ pending # << >>
    /\ \E result \in SubMsgResults :
           LET sub == Head(pending)
               reply == Reply(sub.id, result)
               res == Cw20ReplySaveToken(tokenSlot, reply)
           IN  /\ IF ReplyRequested(sub, result)
                  THEN /\ pending' = Tail(pending) \o res.msgs
                       /\ dispatched' = dispatched + Len(res.msgs)
                       /\ replied' = replied + 1
                       /\ attempt' = IF res.ok THEN "none"
                                     ELSE IF Tail(pending) = << >> THEN "failed"
                                     ELSE attempt
                       /\ Cw20Commit([backend |-> "cw20", op |-> "reply",
                                      reply |-> reply, pre |-> tokenSlot,
                                      attempt |-> attempt,
                                      outstanding |-> Len(pending),
                                      res |-> res])
                  ELSE /\ pending' = Tail(pending)
                       /\ UNCHANGED <<tokenSlot, saved, attempt, dispatched,
                                      replied, last, cw4626Vars, neutronVars,
                                      denomVars>>

\* The reply to another sub-message of the contract reaches reply_save_token.
Cw20ForeignReplyCall ==
    /\ ContractUses({"cw20"})
    /\ \E id \in ForeignReplyIds, result \in SubMsgResults :
           LET reply == Reply(id, result)
           IN  /\ UNCHANGED <<pending, attempt, dispatched, replied>>
               /\ Cw20Commit([backend |-> "cw20", op |-> "reply",
                              reply |-> reply, pre |-> tokenSlot,
                              attempt |-> attempt, outstanding |-> Len(pending),
                              res |-> Cw20ReplySaveToken(tokenSlot, reply)])

\* reply_save_token is handed a reply with the reserved id while no
\* sub-message of instantiate is outstanding: the function is given the
\* reply alone and is public to the contract that calls it.
Cw20UnsolicitedReplyCall ==
    /\ ContractUses({"cw20"})
    /\ pending = << >>
    /\ \E result \in SubMsgResults :
           LET reply == Reply(REPLY_SAVE_CW20_ADDRESS, result)
           IN  /\ UNCHANGED <<pending, attempt, dispatched, replied>>
               /\ Cw20Commit([backend |-> "cw20", op |-> "reply",
                              reply |-> reply, pre |-> tokenSlot,
                              attempt |-> attempt, outstanding |-> 0,
                              res |-> Cw20ReplySaveToken(tokenSlot, reply)])

NextCw20 ==
    \/ Cw20InstantiateCall
    \/ Cw20ReplyCall
    \/ Cw20ForeignReplyCall
    \/ Cw20UnsolicitedReplyCall

--------------------------------------------------------------------------
(* The denom functions on drawn inputs *)

\* The owners and subdenoms drawn, some of them with a '/'.
DenomParts ==
    {<< >>, <<"a">>, <<"b", "c">>, <<Slash>>, <<"a", Slash, "b">>, Factory}

\* The pieces denom strings are drawn from; none holds a '/'.
Segments == {<< >>, <<"a">>, <<"b">>, <<"f">>, Factory}

SegmentLists ==
    UNION {[1 .. n -> Segments] : n \in 1 .. MaxSegments}

\* The string whose pieces are segs: the segments with a '/' between them.
RECURSIVE JoinSegments(_)
JoinSegments(segs) ==
    IF Len(segs) = 1 THEN segs[1]
    ELSE segs[1] \o <<Slash>> \o JoinSegments(Tail(segs))

HasSlash(s) == \E i \in 1 .. Len(s) : s[i] = Slash

\* An identity (owner, subdenom) to be written as a string, or a denom string
\* as a caller may hand it to from_native_denom.
InitDenom ==
    /\ IdleCw4626 /\ IdleNeutron /\ IdleCw20
    /\ last = None
    /\ dOut = None
    /\ \/ /\ dIn \in {Some([kind |-> "pair", owner |-> o, subdenom |-> sd]) :
                         o \in DenomParts, sd \in DenomParts}
          /\ dStr = None
       \/ \E segs \in SegmentLists :
              /\ dIn = Some([kind |-> "raw", segs |-> segs])
              /\ dStr = Some([by |-> "caller", s |-> JoinSegments(segs)])

DenomCommit(call) ==
    /\ last' = Some(call)
    /\ UNCHANGED <<dIn, cw4626Vars, neutronVars, cw20Vars>>

OsmosisToStringCall ==
    /\ dIn # None
    /\ dIn[1].kind = "pair"
    /\ dStr = None
    /\ dStr' = Some([by |-> "osmosis",
                     s |-> OsmosisToString(NewDenom(dIn[1].owner,
                                                    dIn[1].subdenom))])
    /\ UNCHANGED dOut
    /\ DenomCommit([backend |-> "osmosis", op |-> "to_string"])

NeutronToStringCall ==
    /\ dIn # None
    /\ dIn[1].kind = "pair"
    /\ dStr = None
    /\ dStr' = Some([by |-> "neutron",
                     s |-> NeutronToString(NewDenom(dIn[1].owner,
                                                    dIn[1].subdenom))])
    /\ UNCHANGED dOut
    /\ DenomCommit([backend |-> "neutron", op |-> "to_string"])

OsmosisFromNativeDenomCall ==
    /\ dIn # None
    /\ dStr # None
    /\ dOut = None
    /\ dOut' = Some([by |-> "osmosis",
                     res |-> OsmosisFromNativeDenom(dStr[1].s)])
    /\ UNCHANGED dStr
    /\ DenomCommit([backend |-> "osmosis", op |-> "from_native_denom"])

NeutronFromNativeDenomCall ==
    /\ dIn # None
    /\ dStr # None
    /\ dOut = None
    /\ dOut' = Some([by |-> "neutron",
                     res |-> NeutronFromNativeDenom(dStr[1].s)])
    /\ UNCHANGED dStr
    /\ DenomCommit([backend |-> "neutron", op |-> "from_native_denom"])

NextDenom ==
    \/ OsmosisToStringCall
    \/ NeutronToStringCall
    \/ OsmosisFromNativeDenomCall
    \/ NeutronFromNativeDenomCall

--------------------------------------------------------------------------
(* The specification *)

Init == InitContract \/ InitDenom

Next == NextCw4626 \/ NextNative \/ NextCw20 \/ NextDenom

Spec == Init /\ [][Next]_vars

\* The host keeps its word on a sub-message that asks for a reply always: a
\* sub-message it holds is run, and its reply delivered, at some time.
FairSpec == Init /\ [][Next]_vars /\ WF_vars(Cw20ReplyCall)

\* A contract with a Cw4626 token that is instantiated once and whose failed
\* calls are rolled back.
TxSpec == InitContract /\ [][NextCw4626Tx]_vars

--------------------------------------------------------------------------
(* The last call *)

LastIs(backend, op) ==
    /\ last # None
    /\ last[1].backend = backend
    /\ last[1].op = op

Call == last[1]

\* A burn of the amount that the call right before it minted successfully.
BurnRightAfterMint(backend) ==
    /\ LastIs(backend, "burn")
    /\ Call.after_mint # None
    /\ Call.after_mint[1].amount = Call.amount

Minted == Call.after_mint[1]

--------------------------------------------------------------------------
(* C1 *)

\* C1 as stated: mint(recipient, a), a > 0, followed by a successful burn(a)
\* restores the total supply and the balance of the recipient of the mint to
\* their values before the mint, whoever the recipient is.
C1_RestoresAnyRecipient ==
    /\ BurnRightAfterMint("cw4626") /\ Call.res.ok
           => /\ Cw4626QueryTotalSupply(CurrentCw4626Store).value = Minted.supply
              /\ BalanceOf(balances, Minted.recipient) = Minted.balance
    /\ BurnRightAfterMint("neutron") /\ Call.res.ok
           => NeutronQueryTotalSupply(totalSupply) = Minted.supply

\* C1, amended: after a successful mint(recipient, a), a > 0, burn(a) takes
\* the amount from the contract's own balance.  When the recipient is the
\* contract itself the burn succeeds and restores the total supply and the
\* recipient's balance; for another recipient the burn succeeds exactly when
\* the contract's own balance is at least the amount, and then restores the
\* total supply while the recipient keeps the minted amount.  For the Neutron
\* denom the burn succeeds and restores the tracked total supply.
C1_MintThenBurn ==
    /\ BurnRightAfterMint("cw4626") /\ Minted.recipient = ContractAddr
           => /\ Call.res.ok
              /\ Cw4626QueryTotalSupply(CurrentCw4626Store).value = Minted.supply
              /\ BalanceOf(balances, Minted.recipient) = Minted.balance
    /\ BurnRightAfterMint("cw4626") /\ Minted.recipient # ContractAddr
           => Call.res.ok
                  <=> BalanceOf(Call.pre.balances, ContractAddr) >= Call.amount
    /\ BurnRightAfterMint("cw4626") /\ Minted.recipient # ContractAddr
       /\ Call.res.ok
           => /\ Cw4626QueryTotalSupply(CurrentCw4626Store).value = Minted.supply
              /\ BalanceOf(balances, Minted.recipient)
                     = Minted.balance + Minted.amount
    /\ BurnRightAfterMint("neutron")
           => /\ Call.res.ok
              /\ NeutronQueryTotalSupply(totalSupply) = Minted.supply

\* A burn right after a mint of the same amount to the contract, on a supply
\* and a balance that were not zero before the mint.
C1_Witness ==
    /\ BurnRightAfterMint("cw4626")
    /\ Minted.recipient = ContractAddr
    /\ Minted.supply > 0
    /\ Minted.balance > 0
    /\ Call.res.ok

--------------------------------------------------------------------------
(* C2 *)

\* C2: a burn of more than the contract's own balance (Cw4626) or than the
\* tracked total supply (Neutron) fails with an arithmetic overflow error of
\* the subtraction, returns no messages and leaves the storage as it was.
C2_BurnTooMuchFails ==
    /\ LastIs("cw4626", "burn")
       /\ Call.amount > BalanceOf(Call.pre.balances, ContractAddr)
           => /\ ~Call.res.ok
              /\ Call.res.err = "Overflow"
              /\ Call.res.detail[1] = "Sub"
              /\ Call.res.msgs = << >>
              /\ CurrentCw4626Store = Call.pre
    /\ LastIs("neutron", "burn")
       /\ Call.amount > NeutronQueryTotalSupply(Call.pre)
           => /\ ~Call.res.ok
              /\ Call.res.err = "Overflow"
              /\ Call.res.detail[1] = "Sub"
              /\ Call.res.msgs = << >>
              /\ totalSupply = Call.pre

\* A burn of more than the balance the contract holds, the balance not zero.
C2_Witness ==
    /\ LastIs("cw4626", "burn")
    /\ BalanceOf(Call.pre.balances, ContractAddr) > 0
    /\ Call.amount > BalanceOf(Call.pre.balances, ContractAddr)

--------------------------------------------------------------------------
(* C3 *)

ZeroMint(backend) == LastIs(backend, "mint") /\ Call.amount = 0

\* C3 as stated: for Cw4626, Neutron and Osmosis, mint with amount 0 fails
\* with a zero-amount error, changes no stored state and returns no messages
\* or events.
C3_ZeroMintFailsEverywhere ==
    /\ ZeroMint("cw4626")
           => /\ ~Call.res.ok
              /\ Call.res.err = "InvalidZeroAmount"
              /\ CurrentCw4626Store = Call.pre
              /\ Call.res.msgs = << >> /\ Call.res.events = << >>
    /\ ZeroMint("neutron") \/ ZeroMint("osmosis")
           => /\ ~Call.res.ok
              /\ Call.res.err = "InvalidZeroAmount"
              /\ totalSupply = Call.pre
              /\ Call.res.msgs = << >> /\ Call.res.events = << >>

\* C3, amended: Cw4626 mint with amount 0 fails with a zero-amount error,
\* changes no stored state and returns no messages or events.  The mint of
\* the Neutron and Osmosis denoms makes no check of the amount: with amount 0
\* it returns the MsgMint and the bank send, both of amount 0, and the
\* tracked total supply keeps its value; a zero amount is refused only by
\* the host when it runs the messages.
C3_ZeroMint ==
    /\ ZeroMint("cw4626")
           => /\ ~Call.res.ok
              /\ Call.res.err = "InvalidZeroAmount"
              /\ CurrentCw4626Store = Call.pre
              /\ Call.res.msgs = << >> /\ Call.res.events = << >>
    /\ ZeroMint("neutron") \/ ZeroMint("osmosis")
           => /\ Call.res.ok
              /\ Len(Call.res.msgs) = 2
              /\ Call.res.msgs[1].type = "MsgMint"
              /\ Call.res.msgs[1].amount = 0
              /\ Call.res.msgs[2].type = "BankMsg::Send"
              /\ NeutronQueryTotalSupply(totalSupply)
                     = NeutronQueryTotalSupply(Call.pre)

\* A mint of amount 0 on an instantiated Cw4626 token, to a valid recipient.
C3_Witness ==
    /\ ZeroMint("cw4626")
    /\ Call.pre.info # None
    /\ Call.recipient = Alice

--------------------------------------------------------------------------
(* C4 *)

\* A reply that reached reply_save_token with an id other than the reserved.
ForeignReply ==
    LastIs("cw20", "reply") /\ Call.reply.id # REPLY_SAVE_CW20_ADDRESS

\* C4: a reply with an id other than REPLY_SAVE_CW20_ADDRESS (14509) fails
\* with InvalidReplyId, whatever its result is, and the token slot keeps what
\* it held before the reply.
C4_InvalidReplyId ==
    ForeignReply
        => /\ ~Call.res.ok
           /\ Call.res.err = "InvalidReplyId"
           /\ tokenSlot = Call.pre

\* A reply with another id that carries the address of an instantiated
\* contract, while the slot holds another token.
C4_Witness ==
    /\ ForeignReply
    /\ Call.reply.result = SubMsgOk(Some(InstantiateResponseData(TokenA)))
    /\ Call.pre = TokenStorageSave(None, Cw20(TokenB))
    /\ tokenSlot = Call.pre

--------------------------------------------------------------------------
(* C5 *)

\* A reply with the reserved id.
ReservedReply ==
    LastIs("cw20", "reply") /\ Call.reply.id = REPLY_SAVE_CW20_ADDRESS

\* The sub-message failed, or its data is missing or is no instantiate
\* response, or the contract address of the response is no valid address.
BadResult(result) ==
    \/ ~result.ok
    \/ result.data = None
    \/ result.data = Some(GarbageBinary)
    \/ result.data = Some(InstantiateResponseData(BadAddr))

\* C5: a reply with the reserved id whose sub-message failed, whose data is
\* missing or unparsable, or whose contract address is invalid returns an
\* error, the message of a failed sub-message being carried by the error, and
\* the token slot keeps what it held before the reply.
C5_FailedReplyKeepsSlot ==
    ReservedReply /\ BadResult(Call.reply.result)
        => /\ ~Call.res.ok
           /\ tokenSlot = Call.pre
           /\ ~Call.reply.result.ok
                  => /\ Call.res.err = "SubMsgFailure"
                     /\ Call.res.detail = Call.reply.result.err

\* A reply of a failed sub-message while the slot holds a token.
C5_Witness ==
    /\ ReservedReply
    /\ ~Call.reply.result.ok
    /\ Call.pre = TokenStorageSave(None, Cw20(TokenA))
    /\ ~Call.res.ok

--------------------------------------------------------------------------
(* C6 *)

\* C6: a reply with the reserved id of a successful sub-message whose
\* response carries the valid address A saves Cw20(A) in the token slot: the
\* reply succeeds and a load right after it returns Cw20(A).
C6_ReplySavesToken ==
    \A a \in {TokenA, TokenB} :
        ReservedReply
        /\ Call.reply.result = SubMsgOk(Some(InstantiateResponseData(a)))
            => /\ Call.res.ok
               /\ TokenStorageLoad(tokenSlot).ok
               /\ TokenStorageLoad(tokenSlot).token = Some(Cw20(a))

\* A successful reply carrying TokenA while the slot holds TokenB.
C6_Witness ==
    /\ ReservedReply
    /\ Call.reply.result = SubMsgOk(Some(InstantiateResponseData(TokenA)))
    /\ Call.pre = TokenStorageSave(None, Cw20(TokenB))
    /\ Call.res.ok

--------------------------------------------------------------------------
(* C7 *)

\* The receive of a native denom.
NativeReceive ==
    LastIs("neutron", "receive") \/ LastIs("osmosis", "receive")

\* The amount of the contract's denom in the funds of the last call; the
\* denom has the same string for both backends.
AttachedAmount == Attached(Call.funds, NeutronToString(TheDenom))

\* C7 as stated: receive(amount) of the Osmosis and Neutron denoms succeeds
\* if and only if the amount of the vault denom attached to the message
\* equals amount.
C7_ReceiveIffAttachedEquals ==
    NativeReceive => (Call.res.ok <=> AttachedAmount = Call.amount)

\* C7, amended: receive(amount) of the Osmosis and Neutron denoms succeeds if
\* and only if info.funds holds the coin (vault denom, amount).  With the
\* funds of a message, which hold no coin of amount zero and one coin of a
\* denom at most, that is if and only if amount > 0 and the amount of the
\* vault denom attached equals amount: more and less both fail, and
\* receive(0) fails although nothing of the denom is attached.
C7_ReceiveIffCoinAttached ==
    NativeReceive
        => /\ Call.res.ok <=> Contains(Call.funds,
                                       Coin(NeutronToString(TheDenom),
                                            Call.amount))
           /\ Call.res.ok <=> (Call.amount > 0 /\ AttachedAmount = Call.amount)
           /\ totalSupply = Call.pre

\* A receive of more than the amount on the Neutron denom, a coin of
\* another denom attached as well.
C7_Witness ==
    /\ LastIs("neutron", "receive")
    /\ Call.amount > 0
    /\ AttachedAmount > Call.amount
    /\ Len(Call.funds) = 2
    /\ ~Call.res.ok

--------------------------------------------------------------------------
(* C8 *)

\* An identity was written as a string and the string was parsed by the
\* from_native_denom of the same denom type.
RoundTrip(backend) ==
    /\ dIn # None /\ dIn[1].kind = "pair"
    /\ dStr # None /\ dStr[1].by = backend
    /\ dOut # None /\ dOut[1].by = backend

\* C8: for every owner and subdenom that hold no '/', for OsmosisDenom and
\* for NeutronDenom, from_native_denom of the string of new(owner, subdenom)
\* succeeds and gives back the identity (owner, subdenom).
C8_ParseOfFormat ==
    \A backend \in {"osmosis", "neutron"} :
        RoundTrip(backend)
        /\ ~HasSlash(dIn[1].owner) /\ ~HasSlash(dIn[1].subdenom)
            => /\ dOut[1].res.ok
               /\ dOut[1].res.denom
                      = Some(NewDenom(dIn[1].owner, dIn[1].subdenom))

\* A round trip of a NeutronDenom whose owner and subdenom differ.
C8_Witness ==
    /\ RoundTrip("neutron")
    /\ dIn[1].owner = <<"b", "c">>
    /\ dIn[1].subdenom = <<"a">>
    /\ dOut[1].res.ok

--------------------------------------------------------------------------
(* C9 *)

\* from_native_denom was given the string whose pieces between the '/' are
\* dIn[1].segs.
ParsedRaw == dIn # None /\ dIn[1].kind = "raw" /\ dOut # None

\* C9: from_native_denom succeeds if and only if the string splits on '/'
\* into exactly three segments the first of which is "factory"; every other
\* string fails with the error of an invalid denom, and on success the owner
\* and the subdenom are the second and the third segment.
C9_FromNativeDenom ==
    ParsedRaw
        => LET segs == dIn[1].segs
               res == dOut[1].res
           IN  /\ res.ok <=> (Len(segs) = 3 /\ segs[1] = Factory)
               /\ res.ok => res.denom = Some(NewDenom(segs[2], segs[3]))
               /\ ~res.ok => res.err = "GenericErr" /\ res.denom = None

\* OsmosisDenom::from_native_denom refused a string of four segments that
\* starts with "factory".
C9_Witness ==
    /\ ParsedRaw
    /\ dOut[1].by = "osmosis"
    /\ Len(dIn[1].segs) = 4
    /\ dIn[1].segs[1] = Factory
    /\ ~dOut[1].res.ok

--------------------------------------------------------------------------
(* C10 *)

\* C10: the total supply that NeutronDenom::query_total_supply returns is 0
\* before any mint and is in every state the sum of the amounts of the
\* successful mints less the sum of the amounts of the successful burns.
C10_TrackedSupply ==
    /\ NeutronQueryTotalSupply(totalSupply) = minted - burned
    /\ minted = 0 => NeutronQueryTotalSupply(totalSupply) = 0

\* A successful burn after mints that leaves a part of the supply.
C10_Witness ==
    /\ LastIs("neutron", "burn")
    /\ Call.res.ok
    /\ Call.amount > 0
    /\ burned > 0
    /\ minted > burned
    /\ NeutronQueryTotalSupply(totalSupply) > 0

--------------------------------------------------------------------------
(* C11 *)

\* Cw20::instantiate was given a payload that is a Cw20InitInfo.
ValidCw20Instantiate ==
    /\ LastIs("cw20", "instantiate")
    /\ Call.init # None
    /\ FromBinary("Cw20InitInfo", Call.init[1]).ok

\* C11: Cw20 instantiate with a valid init payload returns exactly one
\* sub-message, with the id REPLY_SAVE_CW20_ADDRESS (14509) and a reply asked
\* for always, and writes nothing to the storage; the token slot is written
\* only by a successful reply with that id.
C11_InstantiateEmitsOneSubMsg ==
    /\ ValidCw20Instantiate
           => /\ Call.res.ok
              /\ Len(Call.res.msgs) = 1
              /\ Call.res.msgs[1].type = "WasmMsg::Instantiate"
              /\ Call.res.msgs[1].id = REPLY_SAVE_CW20_ADDRESS
              /\ Call.res.msgs[1].id = 14509
              /\ Call.res.msgs[1].reply_on = "always"
              /\ tokenSlot = Call.pre
    /\ last # None /\ Call.backend = "cw20" /\ tokenSlot # Call.pre
           => /\ Call.op = "reply"
              /\ Call.reply.id = REPLY_SAVE_CW20_ADDRESS
              /\ Call.res.ok

\* An instantiate with a valid payload on a contract whose slot is empty and
\* that has no sub-message outstanding but the one of this call.
C11_Witness ==
    /\ ValidCw20Instantiate
    /\ Call.res.ok
    /\ tokenSlot = None
    /\ Len(pending) = 1

--------------------------------------------------------------------------
(* C12 *)

\* C12 as stated: a contract using the Cw20 backend has at most one creation
\* outstanding (sub-message returned, reply not yet handled) at any time.
C12_AtMostOneOutstanding == Len(pending) <= 1

\* C12, amended: Cw20::instantiate keeps no record of the sub-messages it
\* returned: with a valid payload it succeeds also while earlier creations
\* are outstanding, and every outstanding sub-message carries the same id
\* REPLY_SAVE_CW20_ADDRESS, with a reply asked for always.  Nothing in the
\* token limits the creations outstanding to one.
C12_OutstandingShareId ==
    /\ \A i \in 1 .. Len(pending) :
           /\ pending[i].id = REPLY_SAVE_CW20_ADDRESS
           /\ pending[i].reply_on = "always"
    /\ ValidCw20Instantiate
           => /\ Call.res.ok
              /\ pending # << >>
              /\ pending[Len(pending)] = Call.res.msgs[1]

\* An instantiate that succeeded while the creation of an earlier instantiate
\* was outstanding: two sub-messages wait for their replies.
C12_Witness ==
    /\ ValidCw20Instantiate
    /\ Call.res.ok
    /\ Len(pending) = 2
    /\ pending[1].id = pending[2].id

--------------------------------------------------------------------------
(* C13 *)

\* A message of a Response that asks the host for a reply: those added with
\* add_message carry no id and ask for none.
ReplyTagged(msg) == "reply_on" \in DOMAIN msg

NativeInstantiate ==
    LastIs("neutron", "instantiate") \/ LastIs("osmosis", "instantiate")

\* What the init payload of the last Cw4626 instantiate holds.
InitMsg == Call.init[1].body

\* C13 as stated: the instantiate of Cw4626 and of the Osmosis and Neutron
\* denoms returns no message that asks for a reply and saves the identity or
\* state of the token in the storage within the call.
C13_InstantiatePersists ==
    /\ LastIs("cw4626", "instantiate") /\ Call.res.ok
           => /\ \A i \in 1 .. Len(Call.res.msgs) : ~ReplyTagged(Call.res.msgs[i])
              /\ tokenInfo # None
    /\ NativeInstantiate /\ Call.res.ok
           => /\ \A i \in 1 .. Len(Call.res.msgs) : ~ReplyTagged(Call.res.msgs[i])
              /\ totalSupply # None

\* C13, amended: none of these instantiate calls takes part in the reply
\* protocol.  A successful Cw4626 instantiate returns no message and saves
\* the token info of its payload within the call.  The instantiate of the
\* Osmosis and Neutron denoms always succeeds, returns the one message
\* MsgCreateDenom of (owner, subdenom) with no reply asked for, and writes
\* nothing to the storage: the identity is the value the caller holds.
C13_InstantiateWithoutReply ==
    /\ LastIs("cw4626", "instantiate") /\ Call.res.ok
           => /\ Call.res.msgs = << >>
              /\ tokenInfo # None
              /\ tokenInfo[1].name = InitMsg.name
              /\ tokenInfo[1].symbol = InitMsg.symbol
    /\ NativeInstantiate
           => /\ Call.res.ok
              /\ Call.res.msgs
                     = <<MsgCreateDenom(TheDenom.owner, TheDenom.subdenom)>>
              /\ ~ReplyTagged(Call.res.msgs[1])
              /\ totalSupply = Call.pre
    /\ last # None /\ Call.backend \in {"cw4626", "neutron", "osmosis"}
           => pending = << >> /\ tokenSlot = None

\* The instantiate of a Neutron denom on the empty storage of a new contract.
C13_Witness ==
    /\ LastIs("neutron", "instantiate")
    /\ Call.res.ok
    /\ Call.pre = None
    /\ totalSupply = None

--------------------------------------------------------------------------
(* C14 *)

\* C14: the token slot is one register.  A load returns exactly the token of
\* the most recent successful save: the slot holds the bytes of that token
\* alone, whatever it held before, so that saving a token over itself leaves
\* what saving it once leaves.  A load fails with a not-found error as long
\* as no save has succeeded, and a call that saves nothing leaves the slot as
\* it was.
C14_SlotIsRegister ==
    /\ saved = None
           => /\ ~TokenStorageLoad(tokenSlot).ok
              /\ TokenStorageLoad(tokenSlot).err = "NotFound"
    /\ saved # None
           => /\ TokenStorageLoad(tokenSlot).ok
              /\ TokenStorageLoad(tokenSlot).token = saved
              /\ tokenSlot = TokenStorageSave(None, saved[1])
    /\ last # None /\ Call.backend = "cw20" /\ SavedBy(Call) = None
           => tokenSlot = Call.pre

\* A reply saved TokenA over a slot that held TokenA already.
C14_Witness ==
    /\ ReservedReply
    /\ Call.res.ok
    /\ Call.pre = TokenStorageSave(None, Cw20(TokenA))
    /\ saved = Some(Cw20(TokenA))

--------------------------------------------------------------------------
(* C15 *)

\* A mint or a burn of the denom by a contract that is not its owner.
NonOwnerCall(backend, op) ==
    LastIs(backend, op) /\ Call.contract # TheDenom.owner

NonOwnerMintOrBurn ==
    \/ NonOwnerCall("osmosis", "mint") \/ NonOwnerCall("osmosis", "burn")
    \/ NonOwnerCall("neutron", "mint") \/ NonOwnerCall("neutron", "burn")

OwnerCall(backend, op) ==
    LastIs(backend, op) /\ Call.contract = TheDenom.owner

--------------------------------------------------------------------------
(* C16 *)

\* A mint of a positive amount to a valid recipient on an instantiated token.
GoodMint ==
    /\ LastIs("cw4626", "mint")
    /\ Call.pre.info # None
    /\ Call.amount > 0
    /\ AddrValidate(Call.recipient).ok

\* The mint fits: neither the total supply nor the balance of the recipient
\* would pass the largest Uint128.
MintFits ==
    /\ Call.pre.info[1].total_supply + Call.amount <= UintMax
    /\ BalanceOf(Call.pre.balances, Call.recipient) + Call.amount <= UintMax

\* C16 as stated: on an instantiated token a mint of a positive amount to a
\* valid recipient succeeds whoever invokes it; the only authorization
\* failure is Unauthorized for a mint before instantiate, which writes
\* nothing.
C16_MintSucceedsForAnyCaller ==
    /\ GoodMint => Call.res.ok
    /\ LastIs("cw4626", "mint") /\ Call.res.err = "Unauthorized"
           => Call.pre.info = None /\ CurrentCw4626Store = Call.pre

\* C16, amended: Cw4626 mint checks no caller and no minter.  On an
\* instantiated token a mint of a positive amount to a valid recipient
\* succeeds whoever invokes it unless the total supply or the balance of the
\* recipient would pass the largest Uint128, in which case the addition
\* panics.  Unauthorized is returned exactly for a mint of a positive amount
\* before instantiate, and that failure writes nothing.
C16_MintChecksNoCaller ==
    /\ GoodMint
           => /\ Call.res.ok <=> MintFits
              /\ ~Call.res.ok => Call.res.err = "panic"
    /\ LastIs("cw4626", "mint")
           => /\ Call.res.err = "Unauthorized"
                     <=> (Call.amount > 0 /\ Call.pre.info = None)
              /\ Call.res.err = "Unauthorized" => CurrentCw4626Store = Call.pre

\* A successful mint invoked by a sender that is neither the contract nor
\* the recipient, on a token that has no minter.
C16_Witness ==
    /\ GoodMint
    /\ Call.sender = Alice
    /\ Call.recipient = ContractAddr
    /\ Call.pre.info[1].mint = None
    /\ Call.res.ok

--------------------------------------------------------------------------
(* C17 *)

\* The holders a balance is asked of.
Holders == {ContractAddr, Alice, Bob}

\* The balance of the caller of the last receive, before the call.
SenderBalance == BalanceOf(Call.pre.balances, Call.sender)

\* C17: a successful Cw4626 receive(amount) moves exactly amount from the
\* balance of the caller (info.sender) to the balance of the contract, leaves
\* every other balance and the total supply as they were, and it succeeds when
\* the caller holds the amount and the contract's balance can take it.  When
\* the caller's balance is below amount it fails with the overflow error of
\* the subtraction and changes no balance.
C17_ReceiveMovesAmount ==
    LastIs("cw4626", "receive")
        => /\ Call.res.ok
                  => /\ \A h \in Holders :
                            BalanceOf(balances, h)
                                = BalanceOf(Call.pre.balances, h)
                                    - (IF h = Call.sender THEN Call.amount ELSE 0)
                                    + (IF h = ContractAddr THEN Call.amount ELSE 0)
                     /\ tokenInfo = Call.pre.info
                     /\ SenderBalance >= Call.amount
           /\ SenderBalance < Call.amount
                  => /\ ~Call.res.ok
                     /\ Call.res.err = "Overflow"
                     /\ Call.res.detail[1] = "Sub"
                     /\ balances = Call.pre.balances
                     /\ tokenInfo = Call.pre.info
           /\ SenderBalance >= Call.amount
              /\ (Call.sender = ContractAddr
                     \/ BalanceOf(Call.pre.balances, ContractAddr) + Call.amount
                            <= UintMax)
                  => Call.res.ok

\* A holder other than the contract moved a part of its balance to the
\* contract, which held a balance already.
C17_Witness ==
    /\ LastIs("cw4626", "receive")
    /\ Call.sender = Alice
    /\ Call.amount > 0
    /\ SenderBalance > Call.amount
    /\ BalanceOf(Call.pre.balances, ContractAddr) > 0
    /\ Call.res.ok

--------------------------------------------------------------------------
(* C18 *)

\* A Cw4626 mint that would raise the total supply above the largest Uint128.
Cw4626MintOverflows ==
    /\ LastIs("cw4626", "mint")
    /\ Call.pre.info # None
    /\ Call.pre.info[1].total_supply + Call.amount > UintMax

\* A Neutron mint that would raise the tracked total supply above it.
NeutronMintOverflows ==
    /\ LastIs("neutron", "mint")
    /\ NeutronQueryTotalSupply(Call.pre) + Call.amount > UintMax

\* C18: a mint that would raise the total supply above the largest Uint128
\* fails, for Cw4626 (the addition panics) and for Neutron (the overflow error
\* of the addition), and leaves the stored supply and balances as they were:
\* the supply is neither wrapped around nor saturated, and it is within
\* Uint128 in every state.
C18_MintOverflowFails ==
    /\ Cw4626MintOverflows
           => /\ ~Call.res.ok
              /\ Call.res.err = "panic"
              /\ CurrentCw4626Store = Call.pre
    /\ NeutronMintOverflows
           => /\ ~Call.res.ok
              /\ Call.res.err = "Overflow"
              /\ Call.res.detail[1] = "Add"
              /\ Call.res.msgs = << >>
              /\ totalSupply = Call.pre
    /\ tokenInfo # None => tokenInfo[1].total_supply \in 0 .. UintMax
    /\ NeutronQueryTotalSupply(totalSupply) \in 0 .. UintMax

\* A Neutron mint refused on a supply that is neither zero nor the largest
\* value: a wrapped or a saturated sum would differ from the supply kept.
C18_Witness ==
    /\ NeutronMintOverflows
    /\ NeutronQueryTotalSupply(Call.pre) > 0
    /\ NeutronQueryTotalSupply(Call.pre) < UintMax
    /\ ~Call.res.ok

--------------------------------------------------------------------------
(* C19 *)

\* The init payload of the last instantiate is absent or is no
\* Cw4626InstantiateMsg.
BadInitPayload ==
    \/ Call.init = None
    \/ ~FromBinary("Cw4626InstantiateMsg", Call.init[1]).ok

--------------------------------------------------------------------------
(* C20 *)

\* The holders other than the contract itself.
OtherHolders == Holders \ {ContractAddr}

\* The last call left holder h with less than it had before the call.
Decreased(h) ==
    /\ last # None
    /\ Call.backend = "cw4626"
    /\ BalanceOf(balances, h) < BalanceOf(Call.pre.balances, h)

\* C20: Cw4626 burn takes tokens from the balance of the contract itself
\* (env.contract.address) only: it changes the balance of no other holder,
\* whether it succeeds or fails.  The balance of a holder other than the
\* contract is decreased by no call but a receive with that holder as the
\* sender, and the balance of the contract by no call but a burn: the tokens
\* of a holder are burned only after a receive moved them to the contract.
C20_BurnOnlyFromContract ==
    /\ LastIs("cw4626", "burn")
           => /\ \A h \in OtherHolders :
                     BalanceOf(balances, h) = BalanceOf(Call.pre.balances, h)
              /\ Call.res.ok
                     => BalanceOf(balances, ContractAddr)
                            = BalanceOf(Call.pre.balances, ContractAddr)
                                  - Call.amount
    /\ \A h \in OtherHolders :
           Decreased(h) => Call.op = "receive" /\ Call.sender = h
    /\ Decreased(ContractAddr) => Call.op = "burn"

\* A successful burn of a positive amount while another holder has a
\* balance, which the burn leaves alone.
C20_Witness ==
    /\ LastIs("cw4626", "burn")
    /\ Call.res.ok
    /\ Call.amount > 0
    /\ BalanceOf(Call.pre.balances, Alice) > 0
    /\ BalanceOf(balances, Alice) = BalanceOf(Call.pre.balances, Alice)

--------------------------------------------------------------------------
(* C21 *)

\* A burn or a mint of amount zero of a token factory denom.
ZeroNative(op) ==
    /\ LastIs("osmosis", op) \/ LastIs("neutron", op)
    /\ Call.amount = 0

--------------------------------------------------------------------------
(* C22 *)

\* A balance query for an address that the BALANCES map does not hold.
QueryOfMissing ==
    /\ LastIs("cw4626", "query_balance")
    /\ Call.address \notin DOMAIN Call.pre.balances

\* C22 as stated: VaultToken::query_balance returns an error when the
\* queried address does not exist in the balance data of the contract.
C22_QueryMissingFails == QueryOfMissing => ~Call.res.ok

\* C22, what Cw4626::query_balance does: it returns an error exactly when the
\* address is not valid; for a valid address it returns the stored balance,
\* and zero when the BALANCES map does not hold the address.  It writes
\* nothing.
C22_QueryBalance ==
    LastIs("cw4626", "query_balance")
        => /\ Call.res.ok <=> AddrValidate(Call.address).ok
           /\ Call.res.ok
                  => Call.res.value = BalanceOf(Call.pre.balances, Call.address)
           /\ QueryOfMissing /\ Call.res.ok => Call.res.value = 0
           /\ CurrentCw4626Store = Call.pre

\* A query, on an instantiated token that has holders, for a valid address
\* that never held a balance: it returned Ok.
C22_Witness ==
    /\ QueryOfMissing
    /\ Call.address = Bob
    /\ Call.pre.info # None
    /\ DOMAIN Call.pre.balances # {}
    /\ Call.res.ok

--------------------------------------------------------------------------
(* C23 *)

\* The step hands a creation sub-message to the host.
Dispatches == dispatched' > dispatched

\* C23: the protocol retries nothing by itself.  A reply with the reserved id
\* to a creation that failed returns an error with no message in it and
\* leaves the token slot as it was; once the last outstanding creation has
\* failed nothing is outstanding, and only a successful instantiate hands a
\* creation sub-message to the host.  The failure blocks nothing: the reply
\* to the instantiate that follows it, when it carries a valid address,
\* succeeds and the slot holds the new token.
C23_NoAutomaticRetry ==
    /\ [](ReservedReply /\ BadResult(Call.reply.result)
              => /\ ~Call.res.ok
                 /\ Call.res.msgs = << >>
                 /\ tokenSlot = Call.pre)
    /\ [](attempt = "failed" => pending = << >>)
    /\ [][Dispatches
              => /\ last'[1].op = "instantiate"
                 /\ last'[1].res.ok
                 /\ dispatched' = dispatched + 1]_vars
    /\ [](\A a \in {TokenA, TokenB} :
              ReservedReply /\ Call.attempt = "retried"
              /\ Call.reply.result = SubMsgOk(Some(InstantiateResponseData(a)))
                  => /\ Call.res.ok
                     /\ TokenStorageLoad(tokenSlot).token = Some(Cw20(a)))

\* A creation failed and left the slot empty, instantiate was invoked again,
\* and the reply to it saved TokenA.
C23_Witness ==
    /\ ReservedReply
    /\ Call.attempt = "retried"
    /\ Call.outstanding = 1
    /\ Call.pre = None
    /\ Call.res.ok
    /\ TokenStorageLoad(tokenSlot).token = Some(Cw20(TokenA))
    /\ pending = << >>

--------------------------------------------------------------------------
(* C24 *)

\* The reply the host delivered for a creation sub-message of instantiate.
HostReply == ReservedReply /\ Call.outstanding >= 1

\* C24: under a host that delivers the reply to every sub-message that asks
\* for one always, every Cw20 instantiate is followed at some time by a reply
\* that reply_save_token handles: the n-th sub-message handed to the host is
\* answered by the n-th reply.  Every sub-message is either outstanding or
\* replied to, and after the reply to the only outstanding one nothing is
\* awaited.  The reply of a creation that succeeded, with the valid address
\* of the new contract, leaves that token in the slot; the reply of one that
\* failed leaves the slot as it was.
C24_EveryInstantiateIsReplied ==
    /\ \A n \in 1 .. MaxDispatched : (dispatched >= n) ~> (replied >= n)
    /\ [](replied + Len(pending) = dispatched)
    /\ [](HostReply /\ Call.outstanding = 1 => pending = << >>)
    /\ [](\A a \in {TokenA, TokenB} :
              HostReply
              /\ Call.reply.result = SubMsgOk(Some(InstantiateResponseData(a)))
                  => /\ Call.res.ok
                     /\ TokenStorageLoad(tokenSlot).token = Some(Cw20(a)))
    /\ [](HostReply /\ ~Call.reply.result.ok
              => ~Call.res.ok /\ tokenSlot = Call.pre)

\* Two instantiates were replied to, the first creation having succeeded and
\* the second failed: nothing is awaited and the slot holds the first token.
C24_Witness ==
    /\ HostReply
    /\ dispatched = 2 /\ replied = 2
    /\ pending = << >>
    /\ ~Call.reply.result.ok
    /\ Call.pre = TokenStorageSave(None, Cw20(TokenA))
    /\ tokenSlot = Call.pre

--------------------------------------------------------------------------
(* C25 *)

NativeMint == LastIs("neutron", "mint") \/ LastIs("osmosis", "mint")

\* The string of the denom the last call was made on.
CallDenom ==
    IF Call.backend = "neutron" THEN NeutronToString(TheDenom)
    ELSE OsmosisToString(TheDenom)

\* C25: a successful mint(recipient, amount) of a token factory denom
\* returns exactly two messages, in this order: a MsgMint of amount of the
\* denom whose sender is the address of the calling contract
\* (env.contract.address), then a bank send of one coin, the same amount of
\* the same denom, to the recipient.
C25_MintMessages ==
    NativeMint /\ Call.res.ok
        => /\ Len(Call.res.msgs) = 2
           /\ Call.res.msgs[1].type = "MsgMint"
           /\ Call.res.msgs[1].denom = CallDenom
           /\ Call.res.msgs[1].amount = Call.amount
           /\ Call.res.msgs[1].sender = Call.contract
           /\ Call.res.msgs[2].type = "BankMsg::Send"
           /\ Call.res.msgs[2].to_address = Call.recipient
           /\ Len(Call.res.msgs[2].amount) = 1
           /\ Call.res.msgs[2].amount[1].denom = Call.res.msgs[1].denom
           /\ Call.res.msgs[2].amount[1].amount = Call.amount

\* A successful mint of two tokens of the Osmosis denom to Bob by the
\* contract that owns the denom.
C25_Witness ==
    /\ LastIs("osmosis", "mint")
    /\ Call.res.ok
    /\ Call.amount = 2
    /\ Call.recipient = Bob
    /\ Call.contract = ContractAddr
    /\ Call.res.msgs[2].to_address = Bob

--------------------------------------------------------------------------
(* C26 *)

\* What the other token factory backend returns for the arguments and the
\* storage of the last call.
OtherNative ==
    IF Call.backend = "neutron"
    THEN CASE Call.op = "instantiate"
                  -> OsmosisInstantiate(Call.pre, TheDenom, None)
           [] Call.op = "mint"
                  -> OsmosisMint(Call.pre, TheDenom, Call.contract,
                                 Call.recipient, Call.amount)
           [] Call.op = "burn"
                  -> OsmosisBurn(Call.pre, TheDenom, Call.contract, Call.amount)
           [] Call.op = "receive"
                  -> OsmosisReceive(Call.pre, TheDenom, Call.funds, Call.amount)
    ELSE CASE Call.op = "instantiate"
                  -> NeutronInstantiate(Call.pre, TheDenom, None)
           [] Call.op = "mint"
                  -> NeutronMint(Call.pre, TheDenom, Call.contract,
                                 Call.recipient, Call.amount)
           [] Call.op = "burn"
                  -> NeutronBurn(Call.pre, TheDenom, Call.contract, Call.amount)
           [] Call.op = "receive"
                  -> NeutronReceive(Call.pre, TheDenom, Call.funds, Call.amount)

\* The last call is an operation of a token factory denom.
NativeCall ==
    /\ last # None
    /\ Call.backend \in {"neutron", "osmosis"}
    /\ Call.op \in {"instantiate", "mint", "burn", "receive"}

\* The results of the last call on the Neutron and on the Osmosis denom.
NeutronResult == IF Call.backend = "neutron" THEN Call.res ELSE OtherNative

OsmosisResult == IF Call.backend = "osmosis" THEN Call.res ELSE OtherNative

\* C26 as stated: for the same (owner, subdenom), contract address,
\* recipient, amount and attached funds, instantiate, mint and burn of the
\* Osmosis and the Neutron denom end the same way, Ok or Err, and return the
\* same list of messages, and receive accepts or rejects alike.
C26_NativeVariantsAgree ==
    NativeCall
        => /\ NeutronResult.ok = OsmosisResult.ok
           /\ NeutronResult.msgs = OsmosisResult.msgs

\* C26, amended: instantiate and receive of the two denoms end the same way
\* and return the same messages.  Mint and burn of the Osmosis denom always
\* return Ok.  The Neutron denom keeps the total supply in the storage: its
\* mint fails when the tracked supply plus the amount overflows and its burn
\* fails when the amount is more than the tracked supply, and whenever they
\* return Ok their messages are those of the Osmosis denom.
C26_NativeVariantsAgreeButSupply ==
    NativeCall
        => /\ Call.op \in {"instantiate", "receive"}
                  => /\ NeutronResult.ok = OsmosisResult.ok
                     /\ NeutronResult.msgs = OsmosisResult.msgs
           /\ Call.op \in {"mint", "burn"}
                  => /\ OsmosisResult.ok
                     /\ NeutronResult.ok
                            => NeutronResult.msgs = OsmosisResult.msgs
           /\ Call.op = "mint"
                  => (NeutronResult.ok
                          <=> NeutronQueryTotalSupply(Call.pre) + Call.amount
                                  <= UintMax)
           /\ Call.op = "burn"
                  => (NeutronResult.ok
                          <=> Call.amount <= NeutronQueryTotalSupply(Call.pre))

\* A burn of more than the tracked supply: the Neutron denom returns an
\* error where the Osmosis denom returns Ok with its MsgBurn.
C26_Witness ==
    /\ LastIs("neutron", "burn")
    /\ Call.amount > NeutronQueryTotalSupply(Call.pre)
    /\ ~Call.res.ok
    /\ OtherNative.ok
    /\ Len(OtherNative.msgs) = 1

--------------------------------------------------------------------------
(* C27 *)

\* The sum of the balances of the holders in keys.
RECURSIVE SumOver(_, _)
SumOver(bal, keys) ==
    IF keys = {} THEN 0
    ELSE LET k == CHOOSE x \in keys : TRUE
         IN  bal[k] + SumOver(bal, keys \ {k})

SumOfBalances(bal) == SumOver(bal, DOMAIN bal)

\* C27: after the one successful instantiate of a Cw4626 token, in every
\* state that mint, burn and receive calls lead to, a failed call being
\* rolled back, the stored total supply is the sum of the balances of all
\* holders, and it is within Uint128.
C27_SupplyIsSumOfBalances ==
    tokenInfo # None
        => /\ tokenInfo[1].total_supply = SumOfBalances(balances)
           /\ tokenInfo[1].total_supply \in 0 .. UintMax

\* After a mint to Alice, a receive from Alice and a burn, all successful,
\* Alice and the contract both hold tokens.
C27_Witness ==
    /\ LastIs("cw4626", "burn")
    /\ Call.res.ok
    /\ Call.amount > 0
    /\ tokenInfo # None
    /\ BalanceOf(balances, Alice) > 0
    /\ BalanceOf(balances, ContractAddr) > 0
    /\ tokenInfo[1].total_supply = SumOfBalances(balances)

--------------------------------------------------------------------------
(* C28 *)

\* The last call is a Cw4626 operation that returned an error or panicked.
FailedCw4626(op) == LastIs("cw4626", op) /\ ~Call.res.ok

\* The storage the last call left is the storage it was given.
LeftAsBefore == CurrentCw4626Store = Call.pre

\* C28 as stated: a Cw4626 instantiate, mint, burn or receive that returns an
\* error leaves the token info, the marketing info and all balances as they
\* were before the call.
C28_ErrorLeavesStorage ==
    \A op \in {"instantiate", "mint", "burn", "receive"} :
        FailedCw4626(op) => LeftAsBefore

\* The mint fails after TOKEN_INFO.save: the recipient is no valid address,
\* or the recipient's balance overflows.
MintFailsLate ==
    /\ Call.amount > 0
    /\ Call.pre.info # None
    /\ Call.pre.info[1].total_supply + Call.amount <= UintMax
    /\ \/ ~AddrValidate(Call.recipient).ok
       \/ BalanceOf(Call.pre.balances, Call.recipient) + Call.amount > UintMax

\* The burn fails after BALANCES.update: there is no token info, or the
\* total supply is less than the amount.
BurnFailsLate ==
    /\ BalanceOf(Call.pre.balances, ContractAddr) >= Call.amount
    /\ \/ Call.pre.info = None
       \/ Call.pre.info[1].total_supply < Call.amount

\* The receive fails after the sender was debited: the balance of the
\* contract overflows.
ReceiveFailsLate ==
    /\ BalanceOf(Call.pre.balances, Call.sender) >= Call.amount
    /\ BalanceOf(SetBalance(Call.pre.balances, Call.sender,
                            BalanceOf(Call.pre.balances, Call.sender)
                                - Call.amount),
                 ContractAddr) + Call.amount > UintMax

\* The instantiate fails after TOKEN_INFO.save: the marketing address of the
\* payload is no valid address.
InstantiateFailsLate ==
    /\ Call.init # None
    /\ FromBinary("Cw4626InstantiateMsg", Call.init[1]).ok
    /\ ValidateInstantiateMsg(InitMsg)
    /\ InitMsg.marketing # None
    /\ InitMsg.marketing[1].marketing # None
    /\ ~AddrValidate(InitMsg.marketing[1].marketing[1]).ok

\* C28, amended: what a Cw4626 call that returns an error leaves depends on
\* where it fails.  A call that fails before its first write leaves the
\* storage as it was.  A mint that fails on the recipient leaves the total
\* supply raised by the amount; a burn that fails on the token info leaves
\* the balance of the contract lowered by the amount; a receive that fails on
\* the balance of the contract leaves the sender debited; an instantiate that
\* fails on the marketing address leaves the new token info.  No failed call
\* changes the marketing info.
C28_ErrorKeepsEarlierWrites ==
    /\ FailedCw4626("mint")
           => IF MintFailsLate
              THEN /\ tokenInfo[1].total_supply
                          = Call.pre.info[1].total_supply + Call.amount
                   /\ balances = Call.pre.balances
              ELSE LeftAsBefore
    /\ FailedCw4626("burn")
           => IF BurnFailsLate
              THEN /\ balances
                          = SetBalance(Call.pre.balances, ContractAddr,
                                       BalanceOf(Call.pre.balances, ContractAddr)
                                           - Call.amount)
                   /\ tokenInfo = Call.pre.info
              ELSE LeftAsBefore
    /\ FailedCw4626("receive")
           => IF ReceiveFailsLate
              THEN /\ balances
                          = SetBalance(Call.pre.balances, Call.sender,
                                       BalanceOf(Call.pre.balances, Call.sender)
                                           - Call.amount)
                   /\ tokenInfo = Call.pre.info
              ELSE LeftAsBefore
    /\ FailedCw4626("instantiate")
           => IF InstantiateFailsLate
              THEN /\ tokenInfo # None
                   /\ tokenInfo[1].name = InitMsg.name
                   /\ tokenInfo[1].total_supply = 0
                   /\ balances = Call.pre.balances
              ELSE LeftAsBefore
    /\ \A op \in {"instantiate", "mint", "burn", "receive"} :
           FailedCw4626(op) => marketingInfo = Call.pre.marketing

\* A mint of a positive amount to a recipient that is no valid address, on
\* an instantiated token: the call returned an error and the total supply is
\* raised.
C28_Witness ==
    /\ FailedCw4626("mint")
    /\ Call.recipient = BadAddr
    /\ Call.amount > 0
    /\ Call.pre.info # None
    /\ tokenInfo[1].total_supply > Call.pre.info[1].total_supply

--------------------------------------------------------------------------
(* C29 *)

\* The payload of the last instantiate is one that instantiate accepts.
GoodInitPayload ==
    /\ Call.init # None
    /\ FromBinary("Cw4626InstantiateMsg", Call.init[1]).ok
    /\ ValidateInstantiateMsg(InitMsg)
    /\ InitMsg.marketing # None /\ InitMsg.marketing[1].marketing # None
           => AddrValidate(InitMsg.marketing[1].marketing[1]).ok

\* An instantiate of a token that holds a token info already.
Reinstantiate ==
    LastIs("cw4626", "instantiate") /\ Call.pre.info # None

\* C29: Cw4626 instantiate does not look at what the storage holds.  On a
\* token that is instantiated already it succeeds for every payload it
\* accepts on a new one, and it overwrites the token info, with a total
\* supply of 0, while every balance stays: when holders have tokens, the
\* stored total supply then differs from the sum of the balances, and a burn
\* of tokens the contract holds fails on the supply.
C29_ReinstantiateResetsSupply ==
    /\ LastIs("cw4626", "instantiate") => (Call.res.ok <=> GoodInitPayload)
    /\ Reinstantiate /\ GoodInitPayload
           => /\ Call.res.ok
              /\ tokenInfo[1].name = InitMsg.name
              /\ tokenInfo[1].total_supply = 0
              /\ balances = Call.pre.balances
              /\ SumOfBalances(Call.pre.balances) > 0
                     => tokenInfo[1].total_supply # SumOfBalances(balances)
    /\ LastIs("cw4626", "burn") /\ Call.pre.info # None
       /\ Call.pre.info[1].total_supply < Call.amount
           => ~Call.res.ok

\* A token whose supply of 2 was the sum of its balances was instantiated
\* again: the supply is 0 and the holders keep their 2 tokens.
C29_Witness ==
    /\ Reinstantiate
    /\ Call.res.ok
    /\ Call.pre.info[1].total_supply = 2
    /\ SumOfBalances(Call.pre.balances) = 2
    /\ tokenInfo[1].total_supply = 0
    /\ SumOfBalances(balances) = 2

--------------------------------------------------------------------------
(* C30 *)

\* The last call is a reply with the reserved id that carries the valid
\* address a of an instantiated contract.
GoodReplyOf(a) ==
    /\ ReservedReply
    /\ Call.reply.result = SubMsgOk(Some(InstantiateResponseData(a)))

\* C30: reply_save_token keeps no record of the instantiations that are
\* outstanding.  A reply with the reserved id, a successful result and a
\* valid address is accepted, and the slot then holds the token of that reply
\* alone: when no instantiate was issued, when one or two are outstanding,
\* and whatever the slot held before.  So after two instantiations that
\* overlap the slot holds the token of the reply handled last.  What the
\* call returns and leaves is a function of the slot and the reply.
C30_ReplyKeepsNoPendingState ==
    /\ \A a \in {TokenA, TokenB} :
           GoodReplyOf(a)
               => /\ Call.res.ok
                  /\ Call.outstanding \in 0 .. MaxPending
                  /\ tokenSlot = TokenStorageSave(None, Cw20(a))
                  /\ tokenSlot = TokenStorageSave(Call.pre, Cw20(a))
                  /\ saved = Some(Cw20(a))
    /\ ReservedReply => Call.res = Cw20ReplySaveToken(Call.pre, Call.reply)
    /\ ReservedReply /\ Call.outstanding = 2 /\ Call.res.ok
           => Len(pending) = 1 /\ pending[1].id = Call.reply.id

\* No instantiate was ever issued, the slot held TokenB, and a reply with
\* the reserved id carrying TokenA was accepted: the slot holds TokenA.
C30_Witness ==
    /\ GoodReplyOf(TokenA)
    /\ dispatched = 0
    /\ Call.outstanding = 0
    /\ Call.pre = TokenStorageSave(None, Cw20(TokenB))
    /\ Call.res.ok
    /\ tokenSlot = TokenStorageSave(None, Cw20(TokenA))

==========================================================================
